---------------------------- MODULE Spec2Model ----------------------------
(***************************************************************************)
(* A model of the PKI secrets backend's key/issuer storage layer           *)
(* (builtin/logical/pki/storage.go) and of its CRL build and revocation    *)
(* engine (builtin/logical/pki/crl_util.go).                               *)
(*                                                                         *)
(* Storage is a set of partial maps, one per key prefix of the backing     *)
(* store.  PEM texts are sequences of tokens: a token is either one whole  *)
(* PEM block (named by its body) or one whitespace character, which is     *)
(* the granularity at which strings.TrimSpace and pem.Decode act.          *)
(***************************************************************************)
EXTENDS Integers, Sequences, FiniteSets, TLC

VARIABLES
    keys,          \* config/key/<id>     : keyID    -> keyEntry
    issuers,       \* config/issuer/<id>  : issuerID -> issuerEntry
    keyConfig,     \* config/keys         : keyConfigEntry
    issuerConfig,  \* config/issuers      : issuerConfigEntry
    crlConfig,     \* crls/config         : localCRLConfigEntry
    crls,          \* crls/<crl-id>       : crlID -> the CRL document stored there
    revoked,       \* revoked/<serial>    : serial -> revocationInfo
    crlDisable,    \* config/crl          : the Disable flag of the CRL configuration
    forceRebuild,  \* crlBuilder.forceRebuild
    m,             \* crlBuilder.m: 0 when free, else the caller holding it
    pc,            \* each concurrent caller's position in the crlBuilder code
    call,          \* each concurrent caller's arguments and locals
    usedIds,       \* the identifiers genUuid has handed out, per kind
    now,           \* the wall clock, in ticks
    requested,     \* history: a rebuild request completed and no build consumed it
    last           \* what the last completed operation was given and returned

vars == <<keys, issuers, keyConfig, issuerConfig, crlConfig, crls, revoked,
          crlDisable, forceRebuild, m, pc, call, usedIds, now, requested, last>>

-----------------------------------------------------------------------------
(* Bounds of the model *)

MaxKeys == 2
MaxIssuers == 2
MaxCrls == 3
MaxCRLNumber == 2
MaxTime == 4
NumCallers == 2

(* Program constants *)

TicksPerSecond == 2
GraceSeconds == 2

KeyIds == 1 .. MaxKeys
IssuerIds == 1 .. MaxIssuers
CrlIds == 1 .. MaxCrls
Callers == 1 .. NumCallers

\* keyID(""), issuerID(""), crlID(""): the empty identifier
NoId == 0

-----------------------------------------------------------------------------
(* PEM texts *)

Whitespace == {"SP", "NL"}

\* Private keys: K1p8 is the key of K1 in another encoding (same key pair,
\* different PEM bytes).
KeyBodies == {"K1", "K1p8", "K2"}

KeyPublic(body) ==
    CASE body = "K1" -> "P1"
      [] body = "K1p8" -> "P1"
      [] body = "K2" -> "P2"
      [] OTHER -> "none"

\* Certificates.  CA1 and CA2 are self-signed roots; CA1b is CA1 reissued
\* (same key, same subject, same issuer name); CA1x is CA1's key and subject
\* cross-signed by CA2; CA3x is an intermediate CA with another subject that
\* CA2 issued for CA1's key; LEAF is not a CA certificate.
CertBodies == {"CA1", "CA1b", "CA1x", "CA2", "CA3x", "LEAF"}

CertInfo(body) ==
    CASE body = "CA1"  -> [PublicKey |-> "P1", RawSubject |-> "S1", RawIssuer |-> "S1",
                           IsCA |-> TRUE, SerialNumber |-> 101]
      [] body = "CA1b" -> [PublicKey |-> "P1", RawSubject |-> "S1", RawIssuer |-> "S1",
                           IsCA |-> TRUE, SerialNumber |-> 102]
      [] body = "CA1x" -> [PublicKey |-> "P1", RawSubject |-> "S1", RawIssuer |-> "S2",
                           IsCA |-> TRUE, SerialNumber |-> 103]
      [] body = "CA2"  -> [PublicKey |-> "P2", RawSubject |-> "S2", RawIssuer |-> "S2",
                           IsCA |-> TRUE, SerialNumber |-> 104]
      [] body = "CA3x" -> [PublicKey |-> "P1", RawSubject |-> "S4", RawIssuer |-> "S2",
                           IsCA |-> TRUE, SerialNumber |-> 106]
      [] OTHER         -> [PublicKey |-> "P2", RawSubject |-> "S3", RawIssuer |-> "S2",
                           IsCA |-> FALSE, SerialNumber |-> 105]

\* The certificates under certs/, by serial: leaf 1 was issued by the CA with
\* subject S1 and key P1, leaf 2 by the CA with subject S2 and key P2; leaf 3
\* is a leaf of S1/P1 that has expired; 4 is a CA certificate issued by
\* S1/P1; leaf 5 of S1/P1 expires at tick 7.  NotAfter is in ticks.
LeafSerials == {1, 2, 3, 4, 5}

LeafInfo(serial) ==
    CASE serial = 1 -> [SerialNumber |-> 1, RawIssuer |-> "S1", SignedBy |-> "P1",
                        NotAfter |-> 1000, IsCA |-> FALSE]
      [] serial = 2 -> [SerialNumber |-> 2, RawIssuer |-> "S2", SignedBy |-> "P2",
                        NotAfter |-> 1000, IsCA |-> FALSE]
      [] serial = 4 -> [SerialNumber |-> 4, RawIssuer |-> "S1", SignedBy |-> "P1",
                        NotAfter |-> 1000, IsCA |-> TRUE]
      [] serial = 5 -> [SerialNumber |-> 5, RawIssuer |-> "S1", SignedBy |-> "P1",
                        NotAfter |-> 7, IsCA |-> FALSE]
      [] OTHER      -> [SerialNumber |-> 3, RawIssuer |-> "S1", SignedBy |-> "P1",
                        NotAfter |-> 1, IsCA |-> FALSE]

RECURSIVE TrimLeft(_)
TrimLeft(s) ==
    IF s = <<>> THEN s
    ELSE IF Head(s) \in Whitespace THEN TrimLeft(Tail(s)) ELSE s

RECURSIVE TrimRight(_)
TrimRight(s) ==
    IF s = <<>> THEN s
    ELSE IF s[Len(s)] \in Whitespace THEN TrimRight(SubSeq(s, 1, Len(s) - 1)) ELSE s

\* strings.TrimSpace
TrimSpace(s) == TrimRight(TrimLeft(s))

\* A faulty normalization that stores and compares the text as given
NormalizeRaw(s) == s

\* strings.TrimSpace(v) + "\n"
Normalize(s) == TrimSpace(s) \o <<"NL">>

\* A token that is a PEM block ("-----BEGIN ...-----" to "-----END ...-----")
IsBlock(tok) == tok \in KeyBodies \cup CertBodies

\* strings.Count(text, "-BEGIN "): the PEM blocks of a text
CountBlocks(s) == Len(SelectSeq(s, IsBlock))

RECURSIVE AfterFirstBlock(_)
AfterFirstBlock(s) ==
    IF s = <<>> THEN s
    ELSE IF IsBlock(Head(s)) THEN Tail(s) ELSE AfterFirstBlock(Tail(s))

\* pem.Decode: the first PEM block of a text ("nil" when it holds none) and
\* the text that follows the block
PemDecode(s) ==
    IF CountBlocks(s) = 0
    THEN [block |-> "nil", extra |-> s]
    ELSE [block |-> Head(SelectSeq(s, IsBlock)), extra |-> AfterFirstBlock(s)]


-----------------------------------------------------------------------------
(* Helpers on finite sets of identifiers and on partial maps *)

Min(S) == CHOOSE x \in S : \A y \in S : x <= y

\* The elements of a set of integers in ascending order: the order in which
\* the backing store lists the entries under a prefix
RECURSIVE SortedSeq(_)
SortedSeq(S) ==
    IF S = {} THEN <<>> ELSE <<Min(S)>> \o SortedSeq(S \ {Min(S)})

\* logical.Storage.Put of one entry
Put(map, k, v) == [x \in DOMAIN map \cup {k} |-> IF x = k THEN v ELSE map[x]]

\* logical.Storage.Delete of one entry (absent entries are not an error)
Delete(map, k) == [x \in DOMAIN map \ {k} |-> map[x]]

Range(f) == {f[x] : x \in DOMAIN f}

-----------------------------------------------------------------------------
(* The record an operation leaves in last: its name, its arguments and     *)
(* what it returned.  Every operation fills the fields it has.             *)

NoResult ==
    [op |-> "none", err |-> FALSE, existed |-> FALSE, id |-> NoId,
     arg |-> "", name |-> "", keyId |-> NoId, wasDefault |-> FALSE,
     forceNew |-> FALSE, ignoreForceFlag |-> FALSE, repl |-> {}, before |-> 0,
     locked |-> FALSE, req |-> FALSE, built |-> FALSE, force |-> FALSE,
     after |-> 0, alone |-> FALSE, wrote |-> {}, prev |-> <<>>,
     serial |-> 0, resp |-> FALSE, time |-> 0, timeUTC |-> 0]

-----------------------------------------------------------------------------
(* storage.go: keys and issuers *)

\* listKeys, listIssuers: the identifiers stored under the prefix
listKeys == SortedSeq(DOMAIN keys)

listIssuers == SortedSeq(DOMAIN issuers)

\* keyEntry.GetSigner (certutil.ParsePEMKey): the key's public part, "none"
\* when the text holds no PEM block that parses as a private key
GetSigner(privateKey) ==
    LET d == PemDecode(privateKey)
    IN  IF d.block \in KeyBodies THEN KeyPublic(d.block) ELSE "none"

\* A faulty parse that accepts data after the block
GetCertificateLax(certificate) ==
    LET d == PemDecode(certificate)
    IN  IF d.block = "nil" \/ d.block \notin CertBodies
        THEN [ok |-> FALSE, cert |-> CertInfo("LEAF")]
        ELSE [ok |-> TRUE, cert |-> CertInfo(d.block)]

\* issuerEntry.GetCertificate: the parsed certificate; ok is FALSE when the
\* text holds no PEM block, holds data after the block, or does not parse
GetCertificate(certificate) ==
    LET d == PemDecode(certificate)
    IN  IF d.block = "nil" \/ TrimSpace(d.extra) # <<>> \/ d.block \notin CertBodies
        THEN [ok |-> FALSE, cert |-> CertInfo("LEAF")]
        ELSE [ok |-> TRUE, cert |-> CertInfo(d.block)]

\* A faulty comparison that never finds two public keys equal
ComparePublicKeysNever(a, b) == FALSE

\* certutil.ComparePublicKeysAndType
ComparePublicKeysAndType(a, b) == a = b

\* genUuid: a random UUID, which is an identifier never handed out before.
\* The least unused one stands for it (none is left when the pool is used
\* up), so entries list in the order they were created; imports come in
\* every order, and with them every listing order of the stored entries.
genUuid(pool, used) == IF pool \ used = {} THEN {} ELSE {Min(pool \ used)}

genKeyId == genUuid(KeyIds, usedIds.key)

genIssuerId == genUuid(IssuerIds, usedIds.issuer)

\* The first element of a listing that is among hits, NoId when there is
\* none: a loop over the listing that stops at the first hit
FirstAmong(ids, hits) ==
    LET at == {n \in 1 .. Len(ids) : ids[n] \in hits}
    IN  IF at = {} THEN NoId ELSE ids[Min(at)]

\* A faulty link step that stops at the first issuer it links
LinkIssuersFirstOnly(knownIssuers, newId, keyPublic) ==
    [i \in DOMAIN issuers |->
        IF i = FirstAmong(SortedSeq(knownIssuers),
                          {j \in DOMAIN issuers :
                              /\ issuers[j].KeyID = NoId
                              /\ ComparePublicKeysAndType(
                                     GetCertificate(issuers[j].Certificate).cert.PublicKey,
                                     keyPublic)})
        THEN [issuers[i] EXCEPT !.KeyID = newId]
        ELSE issuers[i]]

\* A faulty link step that also repoints issuers that have a key
LinkIssuersAlways(knownIssuers, newId, keyPublic) ==
    [i \in DOMAIN issuers |->
        IF /\ i \in knownIssuers
           /\ ComparePublicKeysAndType(
                  GetCertificate(issuers[i].Certificate).cert.PublicKey, keyPublic)
        THEN [issuers[i] EXCEPT !.KeyID = newId]
        ELSE issuers[i]]

\* importKey's link step: every listed issuer with an empty KeyID whose
\* certificate carries the new key's public key is pointed at the new key
LinkIssuersToKey(knownIssuers, newId, keyPublic) ==
    [i \in DOMAIN issuers |->
        IF /\ i \in knownIssuers
           /\ issuers[i].KeyID = NoId
           /\ ComparePublicKeysAndType(
                  GetCertificate(issuers[i].Certificate).cert.PublicKey, keyPublic)
        THEN [issuers[i] EXCEPT !.KeyID = newId]
        ELSE issuers[i]]

\* A faulty default step that promotes only into an empty store
KeyDefaultFirstOnly(knownKeys, newId) ==
    IF knownKeys = {} THEN [DefaultKeyId |-> newId] ELSE keyConfig

\* importKey's default step
KeyDefaultAfterImport(knownKeys, newId) ==
    IF knownKeys = {} \/ keyConfig.DefaultKeyId = NoId
    THEN [DefaultKeyId |-> newId]
    ELSE keyConfig

importKey(keyValue, keyName) ==
    LET kv == Normalize(keyValue)
        knownKeys == listKeys
        knownIssuers == listIssuers
        sameKey == {k \in DOMAIN keys : keys[k].PrivateKey = kv}
        found == FirstAmong(knownKeys, sameKey)
        keyPublic == GetSigner(kv)
        ret == [NoResult EXCEPT !.op = "importKey", !.arg = keyName]
    IN  IF found # NoId
        THEN /\ last' = [ret EXCEPT !.existed = TRUE, !.id = keys[found].ID,
                            !.name = keys[found].Name]
             /\ UNCHANGED <<keys, issuers, keyConfig, usedIds>>
        ELSE IF keyPublic = "none"
        THEN /\ last' = [ret EXCEPT !.err = TRUE]
             /\ UNCHANGED <<keys, issuers, keyConfig, usedIds>>
        ELSE \E newId \in genKeyId :
             /\ usedIds' = [usedIds EXCEPT !.key = @ \cup {newId}]
             /\ keys' = Put(keys, newId,
                            [ID |-> newId, Name |-> keyName, PrivateKey |-> kv])
             /\ issuers' = LinkIssuersToKey(Range(knownIssuers), newId, keyPublic)
             /\ keyConfig' = KeyDefaultAfterImport(Range(knownKeys), newId)
             /\ last' = [ret EXCEPT !.id = newId, !.name = keyName]

\* importIssuer's link step: the first listed key with the certificate's
\* public key, NoId when there is none
KeyOfCertificate(knownKeys, cert) ==
    LET matches ==
            {k \in DOMAIN keys :
                ComparePublicKeysAndType(cert.PublicKey, GetSigner(keys[k].PrivateKey))}
    IN  FirstAmong(knownKeys, matches)

\* importIssuer's default step
IssuerDefaultAfterImport(knownIssuers, newId) ==
    IF knownIssuers = {} \/ issuerConfig.DefaultIssuerId = NoId
    THEN [DefaultIssuerId |-> newId]
    ELSE issuerConfig

importIssuer(certValue, issuerName) ==
    LET cv == Normalize(certValue)
        knownIssuers == listIssuers
        knownKeys == listKeys
        sameCert == {i \in DOMAIN issuers : issuers[i].Certificate = cv}
        found == FirstAmong(knownIssuers, sameCert)
        parsed == GetCertificate(cv)
        ret == [NoResult EXCEPT !.op = "importIssuer", !.arg = issuerName]
    IN  IF found # NoId
        THEN /\ last' = [ret EXCEPT !.existed = TRUE, !.id = issuers[found].ID,
                            !.name = issuers[found].Name,
                            !.keyId = issuers[found].KeyID]
             /\ UNCHANGED <<keys, issuers, issuerConfig, usedIds>>
        ELSE IF \/ CountBlocks(cv) # 1
                \/ ~parsed.ok
                \/ ~parsed.cert.IsCA
        THEN /\ last' = [ret EXCEPT !.err = TRUE]
             /\ UNCHANGED <<keys, issuers, issuerConfig, usedIds>>
        ELSE \E newId \in genIssuerId :
             /\ usedIds' = [usedIds EXCEPT !.issuer = @ \cup {newId}]
             /\ LET keyId == KeyOfCertificate(knownKeys, parsed.cert)
                IN  /\ issuers' = Put(issuers, newId,
                                      [ID |-> newId, Name |-> issuerName,
                                       KeyID |-> keyId, Certificate |-> cv])
                    /\ last' = [ret EXCEPT !.id = newId, !.name = issuerName,
                                   !.keyId = keyId]
             /\ issuerConfig' = IssuerDefaultAfterImport(Range(knownIssuers), newId)
             /\ UNCHANGED keys

\* A faulty delete that removes the entry and leaves the default pointer
deleteKeyKeepsPointer(id) ==
    /\ keys' = Delete(keys, id)
    /\ last' = [NoResult EXCEPT !.op = "deleteKey", !.id = id,
                   !.wasDefault = keyConfig.DefaultKeyId = id]
    /\ UNCHANGED keyConfig

\* deleteKey: the default pointer is cleared when it names the key, then
\* the entry is removed
deleteKey(id) ==
    LET wasDefault == keyConfig.DefaultKeyId = id
    IN  /\ keyConfig' = IF wasDefault THEN [DefaultKeyId |-> NoId] ELSE keyConfig
        /\ keys' = Delete(keys, id)
        /\ last' = [NoResult EXCEPT !.op = "deleteKey", !.id = id,
                       !.wasDefault = wasDefault]

\* deleteIssuer: likewise for issuers
deleteIssuer(id) ==
    LET wasDefault == issuerConfig.DefaultIssuerId = id
    IN  /\ issuerConfig' = IF wasDefault THEN [DefaultIssuerId |-> NoId]
                           ELSE issuerConfig
        /\ issuers' = Delete(issuers, id)
        /\ last' = [NoResult EXCEPT !.op = "deleteIssuer", !.id = id,
                       !.wasDefault = wasDefault]

-----------------------------------------------------------------------------
(* crl_util.go: getRevokedCertEntries *)

\* A Go map read: the zero value when the key is absent
MapGet(map, k) == IF k \in DOMAIN map THEN map[k] ELSE NoId

\* The issuers buildCRLs keeps (issuerIDCertMap): those with a linked key
SigningIssuers == {i \in DOMAIN issuers : issuers[i].KeyID # NoId}

IssuerCert(i) == GetCertificate(issuers[i].Certificate).cert

\* x509.Certificate.CheckSignatureFrom
CheckSignatureFrom(cert, parent) == parent.IsCA /\ cert.SignedBy = parent.PublicKey

\* The issuers whose subject is the revoked certificate's issuer name and
\* whose key verifies its signature
Parents(rev, serial) ==
    LET cert == LeafInfo(rev[serial].CertificateBytes)
    IN  {i \in SigningIssuers :
            /\ cert.RawIssuer = IssuerCert(i).RawSubject
            /\ CheckSignatureFrom(cert, IssuerCert(i))}

\* A faulty test that trusts the cached CertificateIssuer only when that
\* issuer verifies the certificate
CachedIssuerVerifies(rev, serial) ==
    /\ rev[serial].CertificateIssuer # NoId
    /\ rev[serial].CertificateIssuer \in Parents(rev, serial)

\* Whether a record's cached CertificateIssuer is trusted as it stands
CachedIssuerExists(rev, serial) ==
    /\ rev[serial].CertificateIssuer # NoId
    /\ rev[serial].CertificateIssuer \in SigningIssuers

\* The issuer each revocation record is counted under (NoId: the unassigned
\* pool).  The search for a parent ranges over a Go map and stops at the
\* first issuer that verifies, so with several parents any of them may win.
Attributions(rev) ==
    {a \in [DOMAIN rev -> IssuerIds \cup {NoId}] :
        \A serial \in DOMAIN rev :
            IF CachedIssuerExists(rev, serial)
            THEN a[serial] = rev[serial].CertificateIssuer
            ELSE IF Parents(rev, serial) = {}
            THEN a[serial] = NoId
            ELSE a[serial] \in Parents(rev, serial)}

\* The records as getRevokedCertEntries leaves them: a newly found parent is
\* written back into the record
UpdateRevoked(rev, a) ==
    [serial \in DOMAIN rev |->
        IF ~CachedIssuerExists(rev, serial) /\ a[serial] # NoId
        THEN [rev[serial] EXCEPT !.CertificateIssuer = a[serial]]
        ELSE rev[serial]]

\* time.Unix(sec, 0)
FromUnix(sec) == sec * TicksPerSecond

\* time.Time.Unix()
ToUnix(ticks) == ticks \div TicksPerSecond

\* pkix.RevokedCertificate of one record
NewRevCert(info) ==
    [SerialNumber |-> LeafInfo(info.CertificateBytes).SerialNumber,
     RevocationTime |-> IF info.RevocationTimeUTC # 0
                        THEN info.RevocationTimeUTC
                        ELSE FromUnix(info.RevocationTime)]

\* A faulty variant that drops the unassigned pool
RevokedCertsOfAssigned(rev, a, issuerId) ==
    LET serials == SortedSeq({serial \in DOMAIN rev : a[serial] = issuerId})
    IN  IF issuerId = NoId THEN <<>>
        ELSE [n \in 1 .. Len(serials) |-> NewRevCert(rev[serials[n]])]

\* A faulty variant that counts a record under every issuer that verifies it
RevokedCertsOfEveryParent(rev, a, issuerId) ==
    LET serials ==
            SortedSeq({serial \in DOMAIN rev :
                          \/ a[serial] = issuerId
                          \/ issuerId # NoId /\ issuerId \in Parents(rev, serial)})
    IN  [n \in 1 .. Len(serials) |-> NewRevCert(rev[serials[n]])]

\* revokedCertsMap[issuerId], and unassignedCerts for NoId: the entries are
\* appended in the order revoked/ is listed
RevokedCertsOf(rev, a, issuerId) ==
    LET serials == SortedSeq({serial \in DOMAIN rev : a[serial] = issuerId})
    IN  [n \in 1 .. Len(serials) |-> NewRevCert(rev[serials[n]])]

-----------------------------------------------------------------------------
(* crl_util.go: buildCRL and buildCRLs *)

\* The name buildCRLs groups an issuer's certificate under
GroupSubject(cert) == cert.RawIssuer

\* An issuer's place in keySubjectIssuersMap
GroupOf(i) == <<issuers[i].KeyID, GroupSubject(IssuerCert(i))>>

Groups == {GroupOf(i) : i \in SigningIssuers}

\* keySubjectIssuersMap[keyID][subject]: the members in listing order
IssuersSet(g) == SortedSeq({i \in SigningIssuers : GroupOf(i) = g})

\* The orders in which the two nested range loops over keySubjectIssuersMap
\* may visit the groups: any order that keeps the groups of one key together
GroupOrders ==
    {o \in [1 .. Cardinality(Groups) -> Groups] :
        /\ \A x, y \in DOMAIN o : x # y => o[x] # o[y]
        /\ \A x, y, z \in DOMAIN o :
              (x < y /\ y < z /\ o[x][1] = o[z][1]) => o[y][1] = o[x][1]}

\* x509.CreateRevocationList: DER times carry whole seconds
EncodeRevoked(entry) ==
    [SerialNumber |-> entry.SerialNumber,
     RevocationTime |-> ToUnix(entry.RevocationTime)]

\* A faulty bundle load that does not fetch the issuer's key
CanLoadBundleNoKey(id) == id \in DOMAIN issuers

\* fetchCertBundleByIssuerId(id, loadKey = true) succeeds
CanLoadBundle(id) ==
    /\ id \in DOMAIN issuers
    /\ issuers[id].KeyID # NoId => issuers[id].KeyID \in DOMAIN keys

\* A faulty buildCRL that lists the revoked certificates on a CRL it was
\* forced to write while the CRL is disabled
buildCRLFull(acc, forceNew, thisIssuerId, revokedCerts, identifier, crlNumber) ==
    IF crlDisable /\ ~forceNew
    THEN acc
    ELSE IF ~CanLoadBundle(thisIssuerId)
    THEN [acc EXCEPT !.err = TRUE]
    ELSE LET doc == [Number |-> crlNumber,
                     RevokedCertificates |->
                         [n \in 1 .. Len(revokedCerts) |->
                             EncodeRevoked(revokedCerts[n])],
                     Issuer |-> IssuerCert(thisIssuerId).RawSubject]
         IN  [acc EXCEPT !.crls = Put(@, identifier, doc),
                         !.wrote = @ \cup {identifier}]

\* buildCRL, on the pass's running state acc
buildCRL(acc, forceNew, thisIssuerId, revokedCerts, identifier, crlNumber) ==
    IF crlDisable /\ ~forceNew
    THEN acc
    ELSE IF ~CanLoadBundle(thisIssuerId)
    THEN [acc EXCEPT !.err = TRUE]
    ELSE LET template == IF crlDisable THEN <<>> ELSE revokedCerts
             doc == [Number |-> crlNumber,
                     RevokedCertificates |->
                         [n \in 1 .. Len(template) |-> EncodeRevoked(template[n])],
                     Issuer |-> IssuerCert(thisIssuerId).RawSubject]
         IN  [acc EXCEPT !.crls = Put(@, identifier, doc),
                         !.wrote = @ \cup {identifier}]

\* The revoked certificates of a group: for each member in turn, the
\* unassigned pool if the member is the default issuer, then its own
RECURSIVE GroupRevoked(_, _, _)
GroupRevoked(issuersSet, rev, a) ==
    IF issuersSet = <<>> THEN <<>>
    ELSE (IF Head(issuersSet) = issuerConfig.DefaultIssuerId
          THEN RevokedCertsOf(rev, a, NoId) ELSE <<>>)
         \o RevokedCertsOf(rev, a, Head(issuersSet))
         \o GroupRevoked(Tail(issuersSet), rev, a)

\* genCRLId: a random UUID.  CRL identifiers are only ever compared for
\* equality, so the least unused one stands for any fresh one.
genCRLId(acc) ==
    LET unused == CrlIds \ (DOMAIN acc.crls \cup DOMAIN acc.cfg.CRLNumberMap
                             \cup Range(acc.cfg.IssuerIDCRLMap))
    IN  IF unused = {} THEN NoId ELSE Min(unused)

\* A faulty round that maps only the representative of the group
BuildGroupMapsRepresentative(acc, g, forceNew, rev, a) ==
    LET issuersSet == IssuersSet(g)
        members == Range(issuersSet)
        representative ==
            IF issuerConfig.DefaultIssuerId \in members
            THEN issuerConfig.DefaultIssuerId ELSE issuersSet[1]
        revokedCerts == GroupRevoked(issuersSet, rev, a)
        known == {MapGet(acc.cfg.IssuerIDCRLMap, i) : i \in members} \ {NoId}
        minted == genCRLId(acc)
        crlIdentifier == IF known = {} THEN minted ELSE CHOOSE c \in known : TRUE
        numbers == IF known = {}
                   THEN Put(acc.cfg.CRLNumberMap, crlIdentifier, 1)
                   ELSE acc.cfg.CRLNumberMap
        crlNumber == MapGet(numbers, crlIdentifier)
        cfg == [IssuerIDCRLMap |->
                    [i \in DOMAIN acc.cfg.IssuerIDCRLMap \cup {representative} |->
                        IF i = representative THEN crlIdentifier
                        ELSE acc.cfg.IssuerIDCRLMap[i]],
                CRLNumberMap |-> Put(numbers, crlIdentifier, crlNumber + 1)]
    IN  IF Cardinality(known) > 1
        THEN [acc EXCEPT !.err = TRUE]
        ELSE IF crlIdentifier = NoId \/ crlNumber > MaxCRLNumber
        THEN [acc EXCEPT !.capped = TRUE]
        ELSE buildCRL([acc EXCEPT !.cfg = cfg], forceNew, representative,
                      revokedCerts, crlIdentifier, crlNumber)

\* A faulty round that, when the members of a group are mapped to different
\* CRL identifiers, goes on with one of them
BuildGroupAnyKnown(acc, g, forceNew, rev, a) ==
    LET issuersSet == IssuersSet(g)
        members == Range(issuersSet)
        representative ==
            IF issuerConfig.DefaultIssuerId \in members
            THEN issuerConfig.DefaultIssuerId ELSE issuersSet[1]
        revokedCerts == GroupRevoked(issuersSet, rev, a)
        known == {MapGet(acc.cfg.IssuerIDCRLMap, i) : i \in members} \ {NoId}
        minted == genCRLId(acc)
        crlIdentifier == IF known = {} THEN minted ELSE CHOOSE c \in known : TRUE
        numbers == IF known = {}
                   THEN Put(acc.cfg.CRLNumberMap, crlIdentifier, 1)
                   ELSE acc.cfg.CRLNumberMap
        crlNumber == MapGet(numbers, crlIdentifier)
        cfg == [IssuerIDCRLMap |->
                    [i \in DOMAIN acc.cfg.IssuerIDCRLMap \cup members |->
                        IF i \in members THEN crlIdentifier
                        ELSE acc.cfg.IssuerIDCRLMap[i]],
                CRLNumberMap |-> Put(numbers, crlIdentifier, crlNumber + 1)]
    IN  IF crlIdentifier = NoId \/ crlNumber > MaxCRLNumber
        THEN [acc EXCEPT !.capped = TRUE]
        ELSE buildCRL([acc EXCEPT !.cfg = cfg], forceNew, representative,
                      revokedCerts, crlIdentifier, crlNumber)

\* A faulty round that forgets the mapping of every issuer no longer stored
BuildGroupPrunes(acc, g, forceNew, rev, a) ==
    LET issuersSet == IssuersSet(g)
        members == Range(issuersSet)
        representative ==
            IF issuerConfig.DefaultIssuerId \in members
            THEN issuerConfig.DefaultIssuerId ELSE issuersSet[1]
        revokedCerts == GroupRevoked(issuersSet, rev, a)
        known == {MapGet(acc.cfg.IssuerIDCRLMap, i) : i \in members} \ {NoId}
        minted == genCRLId(acc)
        crlIdentifier == IF known = {} THEN minted ELSE CHOOSE c \in known : TRUE
        numbers == IF known = {}
                   THEN Put(acc.cfg.CRLNumberMap, crlIdentifier, 1)
                   ELSE acc.cfg.CRLNumberMap
        crlNumber == MapGet(numbers, crlIdentifier)
        cfg == [IssuerIDCRLMap |->
                    [i \in (DOMAIN acc.cfg.IssuerIDCRLMap \cap DOMAIN issuers)
                              \cup members |->
                        IF i \in members THEN crlIdentifier
                        ELSE acc.cfg.IssuerIDCRLMap[i]],
                CRLNumberMap |-> Put(numbers, crlIdentifier, crlNumber + 1)]
    IN  IF Cardinality(known) > 1
        THEN [acc EXCEPT !.err = TRUE]
        ELSE IF crlIdentifier = NoId \/ crlNumber > MaxCRLNumber
        THEN [acc EXCEPT !.capped = TRUE]
        ELSE buildCRL([acc EXCEPT !.cfg = cfg], forceNew, representative,
                      revokedCerts, crlIdentifier, crlNumber)

\* One round of buildCRLs' loop over the groups
BuildGroup(acc, g, forceNew, rev, a) ==
    LET issuersSet == IssuersSet(g)
        members == Range(issuersSet)
        representative ==
            IF issuerConfig.DefaultIssuerId \in members
            THEN issuerConfig.DefaultIssuerId ELSE issuersSet[1]
        revokedCerts == GroupRevoked(issuersSet, rev, a)
        known == {MapGet(acc.cfg.IssuerIDCRLMap, i) : i \in members} \ {NoId}
        minted == genCRLId(acc)
        crlIdentifier == IF known = {} THEN minted ELSE CHOOSE c \in known : TRUE
        numbers == IF known = {}
                   THEN Put(acc.cfg.CRLNumberMap, crlIdentifier, 1)
                   ELSE acc.cfg.CRLNumberMap
        crlNumber == MapGet(numbers, crlIdentifier)
        cfg == [IssuerIDCRLMap |->
                    [i \in DOMAIN acc.cfg.IssuerIDCRLMap \cup members |->
                        IF i \in members THEN crlIdentifier
                        ELSE acc.cfg.IssuerIDCRLMap[i]],
                CRLNumberMap |-> Put(numbers, crlIdentifier, crlNumber + 1)]
    IN  IF Cardinality(known) > 1
        THEN [acc EXCEPT !.err = TRUE]
        ELSE IF crlIdentifier = NoId \/ crlNumber > MaxCRLNumber
        THEN [acc EXCEPT !.capped = TRUE]
        ELSE buildCRL([acc EXCEPT !.cfg = cfg], forceNew, representative,
                      revokedCerts, crlIdentifier, crlNumber)

\* The value of an expression, computed once: the only element of a
\* one-element set
The(S) == CHOOSE x \in S : TRUE

RECURSIVE BuildGroups(_, _, _, _, _)
BuildGroups(order, acc, forceNew, rev, a) ==
    IF order = <<>> \/ acc.err \/ acc.capped THEN acc
    ELSE The({BuildGroups(Tail(order), next, forceNew, rev, a) :
                 next \in {BuildGroup(acc, Head(order), forceNew, rev, a)}})

\* buildCRLs on storage whose revoked/ prefix holds rev, visiting the groups
\* in the given order and attributing the revoked certificates as a says.
\* The result: what storage holds afterwards and whether the call failed
\* (capped: the pass needs an identifier or a number beyond the model's).
buildCRLs(forceNew, rev, order, a) ==
    LET start == [cfg |-> crlConfig, crls |-> crls, wrote |-> {},
                  err |-> FALSE, capped |-> FALSE]
    IN  The({[crlConfig |-> IF end.err THEN crlConfig ELSE end.cfg,
              crls |-> end.crls,
              revoked |-> UpdateRevoked(rev, a),
              wrote |-> end.wrote,
              err |-> end.err,
              capped |-> end.capped] :
                end \in {BuildGroups(order, start, forceNew, rev, a)}})

-----------------------------------------------------------------------------
(* crl_util.go: the crlBuilder *)

\* consts.ReplicationState.HasState
HasState(repl, flag) == flag \in repl

\* A faulty test that only knows performance standbys
NotActiveNodeStandbyOnly(repl) == HasState(repl, "ReplicationPerformanceStandby")

\* The test requestRebuildIfActiveNode makes before it schedules
NotActiveNode(repl) ==
    \/ HasState(repl, "ReplicationPerformanceStandby")
    \/ HasState(repl, "ReplicationDRSecondary")

\* A faulty force flag that forgets the pending request
MyForceNewArgument(forceNew) == forceNew

\* _doRebuild's effective force flag
MyForceNew(forceNew) == forceRebuild = 1 \/ forceNew

\* A faulty test that builds whatever the flag says
MustRebuildAlways(ignoreForceFlag) == TRUE

\* _doRebuild's test under the lock
\* A faulty test that builds only when the flag is pending
MustRebuildFlagOnly(ignoreForceFlag) == forceRebuild = 1

MustRebuild(ignoreForceFlag) == forceRebuild = 1 \/ ignoreForceFlag

\* A faulty variant in which a failed build takes revoked/ back to what it
\* held before the caller wrote to it
doRebuildRollsBack(ret, forceNew, ignoreForceFlag, rev) ==
    IF MustRebuild(ignoreForceFlag)
    THEN \E order \in GroupOrders, a \in Attributions(rev) :
            \E R \in {buildCRLs(MyForceNew(forceNew), rev, order, a)} :
                /\ ~R.capped
                /\ forceRebuild' = 0
                /\ requested' = FALSE
                /\ crlConfig' = R.crlConfig
                /\ crls' = R.crls
                /\ revoked' = IF R.err THEN revoked ELSE R.revoked
                /\ last' = [ret EXCEPT !.locked = TRUE, !.req = requested,
                               !.built = TRUE, !.force = MyForceNew(forceNew),
                               !.alone = TRUE, !.err = R.err,
                               !.wrote = R.wrote, !.prev = crls,
                               !.resp = @ /\ ~R.err]
    ELSE /\ last' = [ret EXCEPT !.locked = TRUE, !.req = requested,
                               !.after = forceRebuild, !.alone = TRUE]
         /\ revoked' = rev
         /\ UNCHANGED <<forceRebuild, requested, crlConfig, crls>>

\* crlBuilder._doRebuild run to completion by a lone caller, on storage
\* whose revoked/ prefix holds rev; ret is the caller's result so far
doRebuild(ret, forceNew, ignoreForceFlag, rev) ==
    IF MustRebuild(ignoreForceFlag)
    THEN \E order \in GroupOrders, a \in Attributions(rev) :
            \E R \in {buildCRLs(MyForceNew(forceNew), rev, order, a)} :
                /\ ~R.capped
                /\ forceRebuild' = 0
                /\ requested' = FALSE
                /\ crlConfig' = R.crlConfig
                /\ crls' = R.crls
                /\ revoked' = R.revoked
                /\ last' = [ret EXCEPT !.locked = TRUE, !.req = requested,
                               !.built = TRUE, !.force = MyForceNew(forceNew),
                               !.alone = TRUE, !.err = R.err,
                               !.wrote = R.wrote, !.prev = crls,
                               !.resp = @ /\ ~R.err]
    ELSE /\ last' = [ret EXCEPT !.locked = TRUE, !.req = requested,
                               !.after = forceRebuild, !.alone = TRUE]
         /\ revoked' = rev
         /\ UNCHANGED <<forceRebuild, requested, crlConfig, crls>>

rebuild(forceNew) ==
    doRebuild([NoResult EXCEPT !.op = "rebuild", !.forceNew = forceNew,
                               !.before = forceRebuild],
              forceNew, TRUE, revoked)

-----------------------------------------------------------------------------
(* crl_util.go: revokeCert *)

\* fetchCAInfo(defaultRef): the default issuer resolves, is stored and has
\* its signing key
fetchCAInfoOk ==
    LET id == issuerConfig.DefaultIssuerId
    IN  /\ id # NoId
        /\ id \in DOMAIN issuers
        /\ issuers[id].KeyID # NoId
        /\ issuers[id].KeyID \in DOMAIN keys

\* A faulty expiry test without the two seconds of grace
PastExpiryNoGrace(cert, currTime) == cert.NotAfter < currTime

\* cert.NotAfter.Before(time.Now().Add(2 * time.Second))
PastExpiry(cert, currTime) ==
    cert.NotAfter < currTime + GraceSeconds * TicksPerSecond

\* A faulty revokeCert that does not look for an existing revocation record
revokeCertRestamps(serial, fromLease, tainted, currTime) ==
    LET ret == [NoResult EXCEPT !.op = "revokeCert", !.serial = serial,
                                !.before = forceRebuild]
        Return(r) ==
            /\ last' = r
            /\ UNCHANGED <<forceRebuild, requested, crlConfig, crls, revoked>>
    IN  IF tainted THEN Return(ret)
        ELSE IF ~fetchCAInfoOk THEN Return([ret EXCEPT !.err = TRUE])
        ELSE IF serial = IssuerCert(issuerConfig.DefaultIssuerId).SerialNumber
        THEN Return([ret EXCEPT !.err = TRUE])
        ELSE IF serial \notin LeafSerials
        THEN Return([ret EXCEPT !.err = ~fromLease])
        ELSE IF PastExpiry(LeafInfo(serial), currTime) THEN Return(ret)
        ELSE IF LeafInfo(serial).IsCA /\ fromLease THEN Return(ret)
        ELSE LET revInfo == [CertificateBytes |-> serial,
                             RevocationTime |-> ToUnix(currTime),
                             RevocationTimeUTC |-> currTime,
                             CertificateIssuer |-> NoId]
             IN  \E rev \in {Put(revoked, serial, revInfo)} :
                     doRebuild([ret EXCEPT !.resp = TRUE,
                                           !.time = revInfo.RevocationTime,
                                           !.timeUTC = revInfo.RevocationTimeUTC],
                               FALSE, TRUE, rev)

\* A faulty revokeCert that reports a missing certificate to lease expiry too
revokeCertNotFoundFails(serial, fromLease, tainted, currTime) ==
    LET ret == [NoResult EXCEPT !.op = "revokeCert", !.serial = serial,
                                !.before = forceRebuild]
        Return(r) ==
            /\ last' = r
            /\ UNCHANGED <<forceRebuild, requested, crlConfig, crls, revoked>>
    IN  IF tainted THEN Return(ret)
        ELSE IF ~fetchCAInfoOk THEN Return([ret EXCEPT !.err = TRUE])
        ELSE IF serial = IssuerCert(issuerConfig.DefaultIssuerId).SerialNumber
        THEN Return([ret EXCEPT !.err = TRUE])
        ELSE IF serial \in DOMAIN revoked
        THEN doRebuild([ret EXCEPT !.resp = TRUE,
                                   !.time = revoked[serial].RevocationTime,
                                   !.timeUTC = revoked[serial].RevocationTimeUTC],
                       FALSE, TRUE, revoked)
        ELSE IF serial \notin LeafSerials
        THEN Return([ret EXCEPT !.err = TRUE])
        ELSE IF PastExpiry(LeafInfo(serial), currTime) THEN Return(ret)
        ELSE IF LeafInfo(serial).IsCA /\ fromLease THEN Return(ret)
        ELSE LET revInfo == [CertificateBytes |-> serial,
                             RevocationTime |-> ToUnix(currTime),
                             RevocationTimeUTC |-> currTime,
                             CertificateIssuer |-> NoId]
             IN  \E rev \in {Put(revoked, serial, revInfo)} :
                     doRebuild([ret EXCEPT !.resp = TRUE,
                                           !.time = revInfo.RevocationTime,
                                           !.timeUTC = revInfo.RevocationTimeUTC],
                               FALSE, TRUE, rev)

\* revokeCert; currTime is what time.Now() reads during the call
revokeCert(serial, fromLease, tainted, currTime) ==
    LET ret == [NoResult EXCEPT !.op = "revokeCert", !.serial = serial,
                                !.before = forceRebuild]
        Return(r) ==
            /\ last' = r
            /\ UNCHANGED <<forceRebuild, requested, crlConfig, crls, revoked>>
    IN  IF tainted THEN Return(ret)
        ELSE IF ~fetchCAInfoOk THEN Return([ret EXCEPT !.err = TRUE])
        ELSE IF serial = IssuerCert(issuerConfig.DefaultIssuerId).SerialNumber
        THEN Return([ret EXCEPT !.err = TRUE])
        ELSE IF serial \in DOMAIN revoked
        THEN doRebuild([ret EXCEPT !.resp = TRUE,
                                   !.time = revoked[serial].RevocationTime,
                                   !.timeUTC = revoked[serial].RevocationTimeUTC],
                       FALSE, TRUE, revoked)
        ELSE IF serial \notin LeafSerials
        THEN Return([ret EXCEPT !.err = ~fromLease])
        ELSE IF PastExpiry(LeafInfo(serial), currTime) THEN Return(ret)
        ELSE IF LeafInfo(serial).IsCA /\ fromLease THEN Return(ret)
        ELSE LET revInfo == [CertificateBytes |-> serial,
                             RevocationTime |-> ToUnix(currTime),
                             RevocationTimeUTC |-> currTime,
                             CertificateIssuer |-> NoId]
             IN  \E rev \in {Put(revoked, serial, revInfo)} :
                     doRebuild([ret EXCEPT !.resp = TRUE,
                                           !.time = revInfo.RevocationTime,
                                           !.timeUTC = revInfo.RevocationTimeUTC],
                               FALSE, TRUE, rev)

-----------------------------------------------------------------------------
(* The state after construction: empty storage, an idle crlBuilder *)

Init ==
    /\ keys = <<>>
    /\ issuers = <<>>
    /\ keyConfig = [DefaultKeyId |-> NoId]
    /\ issuerConfig = [DefaultIssuerId |-> NoId]
    /\ crlConfig = [IssuerIDCRLMap |-> <<>>, CRLNumberMap |-> <<>>]
    /\ crls = <<>>
    /\ revoked = <<>>
    /\ crlDisable = FALSE
    /\ forceRebuild = 0
    /\ m = 0
    /\ pc = [c \in Callers |-> "idle"]
    /\ call = [c \in Callers |-> NoResult]
    /\ usedIds = [key |-> {}, issuer |-> {}]
    /\ now = TicksPerSecond + 1
    /\ requested = FALSE
    /\ last = NoResult

-----------------------------------------------------------------------------
(* The storage layer on its own: imports and deletes, with the texts and   *)
(* names callers pass                                                      *)

KeyTexts ==
    { <<"K1">>, <<"NL", "K1", "NL", "NL">>, <<"K2", "SP">>, <<"JUNK">> }

CertTexts ==
    { <<"CA1", "NL">>, <<"SP", "CA1">>, <<"CA2", "NL">>, <<"LEAF">> }

Names == {"n1", "n2"}

builderVars == <<forceRebuild, m, pc, call, requested>>

crlVars == <<crlConfig, crls, revoked, crlDisable, now>>

ImportKey ==
    \E keyValue \in KeyTexts, keyName \in Names :
        /\ importKey(keyValue, keyName)
        /\ UNCHANGED <<issuerConfig, crlVars, builderVars>>

ImportIssuer ==
    \E certValue \in CertTexts, issuerName \in Names :
        /\ importIssuer(certValue, issuerName)
        /\ UNCHANGED <<keyConfig, crlVars, builderVars>>

\* Callers delete what a reference resolved to: a stored entry
DeleteKey ==
    \E id \in DOMAIN keys :
        /\ deleteKey(id)
        /\ UNCHANGED <<issuers, issuerConfig, usedIds, crlVars, builderVars>>

DeleteIssuer ==
    \E id \in DOMAIN issuers :
        /\ deleteIssuer(id)
        /\ UNCHANGED <<keys, keyConfig, usedIds, crlVars, builderVars>>

NextStore == ImportKey \/ ImportIssuer \/ DeleteKey \/ DeleteIssuer

SpecStore == Init /\ [][NextStore]_vars

\* The text a caller passes, trimmed of surrounding whitespace and ended by
\* one newline
Normalized(text) == TrimSpace(text) \o <<"NL">>

\* C1: when a stored key or issuer holds material byte-equal to the
\* normalized input, importKey and importIssuer return that entry with
\* existed = TRUE and its identifier, add no entry, and leave the stored name
\* as first given, whatever name the call passes.
C1_ImportDeduplicates ==
    [][ /\ last'.op = "importKey" =>
              \A keyValue \in KeyTexts, keyName \in Names, k \in DOMAIN keys :
                  (/\ keys[k].PrivateKey = Normalized(keyValue)
                   /\ importKey(keyValue, keyName))
                  => /\ last'.existed
                     /\ last'.id = k
                     /\ last'.name = keys[k].Name
                     /\ keys' = keys
        /\ last'.op = "importIssuer" =>
              \A certValue \in CertTexts, issuerName \in Names, i \in DOMAIN issuers :
                  (/\ issuers[i].Certificate = Normalized(certValue)
                   /\ importIssuer(certValue, issuerName))
                  => /\ last'.existed
                     /\ last'.id = i
                     /\ last'.name = issuers[i].Name
                     /\ issuers' = issuers ]_vars

\* An issuer was imported again under another name and came back under its
\* first name, while a key is stored under a name of its own
C1_Witness ==
    /\ last.op = "importIssuer"
    /\ last.existed
    /\ last.arg # last.name
    /\ last.id \in DOMAIN issuers
    /\ issuers[last.id].Name = last.name
    /\ keys # <<>>

\* C2: an issuer imported after the key its certificate carries is stored
\* with that key's identifier as KeyID, and a key imported after such an
\* issuer becomes the KeyID of the stored issuer; no other call is needed.
C2_AutoLink ==
    [][ /\ (last'.op = "importIssuer" /\ ~last'.existed /\ ~last'.err) =>
              \A certValue \in CertTexts, issuerName \in Names, k \in DOMAIN keys :
                  (/\ GetSigner(keys[k].PrivateKey)
                          = GetCertificate(Normalized(certValue)).cert.PublicKey
                   /\ importIssuer(certValue, issuerName))
                  => /\ last'.id \in DOMAIN issuers'
                     /\ issuers'[last'.id].KeyID = k
        /\ (last'.op = "importKey" /\ ~last'.existed /\ ~last'.err) =>
              \A keyValue \in KeyTexts, keyName \in Names, i \in DOMAIN issuers :
                  (/\ issuers[i].KeyID = NoId
                   /\ GetCertificate(issuers[i].Certificate).cert.PublicKey
                          = GetSigner(Normalized(keyValue))
                   /\ importKey(keyValue, keyName))
                  => /\ last'.id \in DOMAIN keys'
                     /\ issuers'[i].KeyID = last'.id ]_vars

\* A key was imported after the issuer that carries it, and the issuer now
\* points at the new key
C2_Witness ==
    /\ last.op = "importKey"
    /\ ~last.existed
    /\ ~last.err
    /\ \E i \in DOMAIN issuers :
          /\ issuers[i].KeyID = last.id
          /\ i \in usedIds.issuer
          /\ last.id \in DOMAIN keys
          /\ keyConfig.DefaultKeyId # last.id

-----------------------------------------------------------------------------
(* The CRL engine over a provisioned mount, one call at a time: issuers    *)
(* and keys are deleted, certificates are revoked, CRLs are rebuilt        *)

RevokeSerials == {1, 2}

storeVars == <<keys, issuers, keyConfig, issuerConfig, usedIds>>

lockVars == <<m, pc, call>>

\* Mounts as writeCaBundle and importIssuer leave them: two roots with their
\* keys; a root and its cross-signed twin on one key; a root and its reissue
\* on one key
Mounts ==
    { [keys |-> <<"K1", "K2">>, certs |-> <<"CA1", "CA2">>],
      [keys |-> <<"K1">>, certs |-> <<"CA1", "CA1x">>],
      [keys |-> <<"K1">>, certs |-> <<"CA1", "CA1b">>] }

\* Storage after importing a mount's keys and then its certificates, in
\* order, into empty storage
Provisioned(mount) ==
    LET keyEntries ==
            [k \in 1 .. Len(mount.keys) |->
                [ID |-> k, Name |-> "n1", PrivateKey |-> <<mount.keys[k], "NL">>]]
        KeyFor(body) ==
            Min({k \in 1 .. Len(mount.keys) :
                    KeyPublic(mount.keys[k]) = CertInfo(body).PublicKey})
    IN  /\ keys = keyEntries
        /\ issuers =
              [i \in 1 .. Len(mount.certs) |->
                  [ID |-> i, Name |-> "n1", KeyID |-> KeyFor(mount.certs[i]),
                   Certificate |-> <<mount.certs[i], "NL">>]]
        /\ keyConfig = [DefaultKeyId |-> IF mount.keys = <<>> THEN NoId ELSE 1]
        /\ issuerConfig = [DefaultIssuerId |-> IF mount.certs = <<>> THEN NoId ELSE 1]
        /\ usedIds = [key |-> 1 .. Len(mount.keys), issuer |-> 1 .. Len(mount.certs)]

\* A provisioned mount whose config/crl either enables or disables the CRL
InitCRL ==
    /\ \E mount \in Mounts : Provisioned(mount)
    /\ crlConfig = [IssuerIDCRLMap |-> <<>>, CRLNumberMap |-> <<>>]
    /\ crls = <<>>
    /\ revoked = <<>>
    /\ crlDisable \in BOOLEAN
    /\ forceRebuild = 0
    /\ m = 0
    /\ pc = [c \in Callers |-> "idle"]
    /\ call = [c \in Callers |-> NoResult]
    /\ now = TicksPerSecond + 1
    /\ requested = FALSE
    /\ last = NoResult

\* revokeCert reads the clock, which has moved on since it was last read
RevokeCert ==
    \E serial \in RevokeSerials, t \in now .. MaxTime :
        /\ now' = t
        /\ revokeCert(serial, FALSE, FALSE, t)
        /\ UNCHANGED <<storeVars, lockVars, crlDisable>>

Rebuild ==
    \E forceNew \in BOOLEAN :
        /\ rebuild(forceNew)
        /\ UNCHANGED <<storeVars, lockVars, crlDisable, now>>

NextCRL ==
    \/ DeleteKey
    \/ DeleteIssuer
    \/ RevokeCert
    \/ Rebuild

SpecCRL == InitCRL /\ [][NextCRL]_vars

\* The call that has just returned ran buildCRLs
Built == last.op \in {"rebuild", "revokeCert"} /\ last.built

\* The CRL identifier config/crl maps an issuer to, NoId when it maps none
CRLOf(i) == MapGet(crlConfig.IssuerIDCRLMap, i)

\* The serial numbers a stored CRL lists
Listed(id) ==
    {crls[id].RevokedCertificates[n].SerialNumber :
        n \in 1 .. Len(crls[id].RevokedCertificates)}

\* C3: a CRL document written over an earlier one under the same identifier
\* carries a larger Number than the one it replaces, whether the rebuild
\* that wrote it succeeded or aborted.
C3_NumbersNeverReused ==
    Built => \A id \in last.wrote \cap DOMAIN last.prev :
                crls[id].Number > last.prev[id].Number

\* C4: after a successful buildCRLs, two stored issuers linked to the same
\* key whose certificates have the same Subject are mapped to the same CRL
\* identifier.
C4_SameKeyAndSubjectShareCRL ==
    (Built /\ ~last.err) =>
        \A i, j \in SigningIssuers :
            (/\ issuers[i].KeyID = issuers[j].KeyID
             /\ IssuerCert(i).RawSubject = IssuerCert(j).RawSubject)
            => CRLOf(i) = CRLOf(j)

\* The revocation records no stored issuer accounts for: the cached issuer
\* is gone or was never found, and no issuer with a key verifies the
\* certificate
Unattributable ==
    {serial \in DOMAIN revoked :
        ~CachedIssuerExists(revoked, serial) /\ Parents(revoked, serial) = {}}

\* The stored issuers whose CRL lists the serial
ListedFor(serial) ==
    {i \in DOMAIN issuers : CRLOf(i) \in DOMAIN crls /\ serial \in Listed(CRLOf(i))}

\* C5 as stated: after a successful rebuild (CRL enabled) every
\* unattributable record is on the default issuer's CRL and on the CRL of no
\* issuer outside the default issuer's group.
C5_UnassignedOnDefaultCRL ==
    (Built /\ ~last.err /\ ~crlDisable) =>
        \A serial \in Unattributable :
            /\ issuerConfig.DefaultIssuerId \in ListedFor(serial)
            /\ \A i \in ListedFor(serial) : CRLOf(i) = CRLOf(issuerConfig.DefaultIssuerId)

\* C5 amended: the same, when the default issuer is stored and linked to a
\* key; and when no default issuer is configured, the record is on no CRL
\* the rebuild wrote.
C5_UnassignedOnStoredDefaultCRL ==
    (Built /\ ~last.err /\ ~crlDisable) =>
        \A serial \in Unattributable :
            /\ issuerConfig.DefaultIssuerId \in SigningIssuers
               => /\ issuerConfig.DefaultIssuerId \in ListedFor(serial)
                  /\ \A i \in ListedFor(serial) :
                        CRLOf(i) = CRLOf(issuerConfig.DefaultIssuerId)
            /\ issuerConfig.DefaultIssuerId = NoId
               => \A id \in last.wrote : serial \notin Listed(id)

\* A record whose issuer was deleted after the revocation rides on the CRL
\* of the default issuer, which is another issuer than the one that signed
C5_Witness ==
    /\ Built /\ ~last.err /\ ~crlDisable
    /\ issuerConfig.DefaultIssuerId \in SigningIssuers
    /\ \E serial \in Unattributable :
          /\ revoked[serial].CertificateIssuer # NoId
          /\ revoked[serial].CertificateIssuer \notin DOMAIN issuers
          /\ issuerConfig.DefaultIssuerId \in ListedFor(serial)

\* The issuers that issued a stored certificate: the subject is its issuer
\* name and the key verifies its signature
IssuedBy(serial) ==
    {i \in DOMAIN issuers :
        /\ GetCertificate(issuers[i].Certificate).cert.RawSubject
               = LeafInfo(serial).RawIssuer
        /\ CheckSignatureFrom(LeafInfo(serial),
                              GetCertificate(issuers[i].Certificate).cert)}

\* C6: after revokeCert succeeds for a certificate the default issuer
\* issued (CRL enabled), the default issuer's CRL lists the serial with the
\* revocation time the call returned, and its Number is one more than the
\* Number of the CRL it replaced.
C6_RevokedOnDefaultCRL ==
    (/\ last.op = "revokeCert"
     /\ last.resp
     /\ ~crlDisable
     /\ issuerConfig.DefaultIssuerId \in IssuedBy(last.serial))
    => LET id == CRLOf(issuerConfig.DefaultIssuerId)
       IN  /\ id \in DOMAIN crls
           /\ \E n \in 1 .. Len(crls[id].RevokedCertificates) :
                 /\ crls[id].RevokedCertificates[n].SerialNumber = last.serial
                 /\ crls[id].RevokedCertificates[n].RevocationTime = last.time
           /\ id \in DOMAIN last.prev => crls[id].Number = last.prev[id].Number + 1

-----------------------------------------------------------------------------
(* The crlBuilder under concurrent callers.  Each caller is a goroutine    *)
(* inside one of the three entry points; pc is where it stands and call    *)
(* what it has done so far.  The mount is either empty or holds one root.  *)

ReplicationStates ==
    { {"ReplicationPerformancePrimary", "ReplicationDRPrimary"},
      {"ReplicationPerformanceSecondary", "ReplicationDRPrimary"},
      {"ReplicationPerformanceStandby", "ReplicationDRPrimary"},
      {"ReplicationPerformancePrimary", "ReplicationDRSecondary"} }

InitBuilder ==
    /\ \/ Provisioned([keys |-> <<>>, certs |-> <<>>])
       \/ Provisioned([keys |-> <<"K1">>, certs |-> <<"CA1">>])
    /\ crlConfig = [IssuerIDCRLMap |-> <<>>, CRLNumberMap |-> <<>>]
    /\ crls = <<>>
    /\ revoked = <<>>
    /\ crlDisable = FALSE
    /\ forceRebuild = 0
    /\ m = 0
    /\ pc = [c \in Callers |-> "idle"]
    /\ call = [c \in Callers |-> NoResult]
    /\ now = TicksPerSecond + 1
    /\ requested = FALSE
    /\ last = NoResult

\* Caller c enters an entry point with the record ret and goes to next; the
\* calls already in flight are no longer alone
Enter(c, ret, next) ==
    /\ pc[c] = "idle"
    /\ pc' = [pc EXCEPT ![c] = next]
    /\ call' = [x \in Callers |->
                  IF x = c
                  THEN [ret EXCEPT !.alone = \A y \in Callers : pc[y] = "idle"]
                  ELSE IF pc[x] = "idle" THEN call[x]
                  ELSE [call[x] EXCEPT !.alone = FALSE]]

\* Caller c returns to its caller
Return(c, ret) ==
    /\ pc' = [pc EXCEPT ![c] = "idle"]
    /\ call' = [call EXCEPT ![c] = NoResult]
    /\ last' = [ret EXCEPT !.after = forceRebuild']

\* rebuildIfForced: the atomic load, and the return when nothing is pending
CallRebuildIfForced(c) ==
    LET ret == [NoResult EXCEPT !.op = "rebuildIfForced", !.forceNew = TRUE,
                                !.before = forceRebuild, !.req = requested]
    IN  /\ pc[c] = "idle"
        /\ IF forceRebuild = 1
           THEN Enter(c, ret, "lock") /\ UNCHANGED last
           ELSE /\ last' = [ret EXCEPT !.after = forceRebuild,
                                       !.alone = \A y \in Callers : pc[y] = "idle"]
                /\ UNCHANGED <<pc, call>>
        /\ UNCHANGED <<forceRebuild, m, requested, storeVars, crlVars>>

\* rebuild: straight into _doRebuild, ignoring the flag
CallRebuild(c) ==
    \E forceNew \in BOOLEAN :
        /\ Enter(c, [NoResult EXCEPT !.op = "rebuild", !.forceNew = forceNew,
                                     !.ignoreForceFlag = TRUE,
                                     !.before = forceRebuild],
                 "lock")
        /\ UNCHANGED <<forceRebuild, m, requested, last, storeVars, crlVars>>

\* requestRebuildIfActiveNode: the replication test, and the return when the
\* node is not an active one
CallRequestRebuild(c) ==
    \E repl \in ReplicationStates :
        LET ret == [NoResult EXCEPT !.op = "requestRebuildIfActiveNode",
                                    !.repl = repl, !.before = forceRebuild]
        IN  /\ pc[c] = "idle"
            /\ IF NotActiveNode(repl)
               THEN /\ last' = [ret EXCEPT !.after = forceRebuild,
                                   !.alone = \A y \in Callers : pc[y] = "idle"]
                    /\ UNCHANGED <<pc, call>>
               ELSE Enter(c, ret, "reqlock") /\ UNCHANGED last
            /\ UNCHANGED <<forceRebuild, m, requested, storeVars, crlVars>>

\* A faulty lock that lets a caller in while another holds the mutex
LockNoMutex(c) ==
    /\ pc[c] \in {"lock", "reqlock"}
    /\ m' = c
    /\ pc' = [pc EXCEPT ![c] = IF pc[c] = "lock" THEN "check" ELSE "store"]
    /\ call' = [call EXCEPT ![c].locked = TRUE]
    /\ UNCHANGED <<forceRebuild, requested, last, storeVars, crlVars>>

\* cb.m.Lock()
Lock(c) ==
    /\ pc[c] \in {"lock", "reqlock"}
    /\ m = 0
    /\ m' = c
    /\ pc' = [pc EXCEPT ![c] = IF pc[c] = "lock" THEN "check" ELSE "store"]
    /\ call' = [call EXCEPT ![c].locked = TRUE]
    /\ UNCHANGED <<forceRebuild, requested, last, storeVars, crlVars>>

\* _doRebuild's test under the lock, and myForceNew
Check(c) ==
    /\ pc[c] = "check"
    /\ IF MustRebuild(call[c].ignoreForceFlag)
       THEN /\ pc' = [pc EXCEPT ![c] = "build"]
            /\ call' = [call EXCEPT ![c].req = requested,
                                    ![c].force = MyForceNew(call[c].forceNew)]
       ELSE /\ pc' = [pc EXCEPT ![c] = "unlock"]
            /\ call' = [call EXCEPT ![c].req = requested]
    /\ UNCHANGED <<forceRebuild, m, requested, last, storeVars, crlVars>>

\* buildCRLs
Build(c) ==
    /\ pc[c] = "build"
    /\ \E order \in GroupOrders, a \in Attributions(revoked) :
          \E R \in {buildCRLs(call[c].force, revoked, order, a)} :
              /\ ~R.capped
              /\ crlConfig' = R.crlConfig
              /\ crls' = R.crls
              /\ revoked' = R.revoked
              /\ call' = [call EXCEPT ![c].built = TRUE, ![c].err = R.err,
                                      ![c].wrote = R.wrote, ![c].prev = crls]
    /\ pc' = [pc EXCEPT ![c] = "clear"]
    /\ UNCHANGED <<forceRebuild, m, requested, last, storeVars, crlDisable, now>>

\* A faulty deferred step that clears the flag only after a build that
\* returned no error
ClearForceOnSuccess(c) ==
    /\ pc[c] = "clear"
    /\ forceRebuild' = IF call[c].err THEN forceRebuild ELSE 0
    /\ requested' = IF call[c].err THEN requested ELSE FALSE
    /\ pc' = [pc EXCEPT ![c] = "unlock"]
    /\ UNCHANGED <<m, call, last, storeVars, crlVars>>

\* A faulty deferred step that leaves the flag as it is
ClearForceKeep(c) ==
    /\ pc[c] = "clear"
    /\ pc' = [pc EXCEPT ![c] = "unlock"]
    /\ UNCHANGED <<forceRebuild, requested, m, call, last, storeVars, crlVars>>

\* The deferred atomic.StoreUint32(&cb.forceRebuild, 0)
ClearForce(c) ==
    /\ pc[c] = "clear"
    /\ forceRebuild' = 0
    /\ requested' = FALSE
    /\ pc' = [pc EXCEPT ![c] = "unlock"]
    /\ UNCHANGED <<m, call, last, storeVars, crlVars>>

\* atomic.StoreUint32(&cb.forceRebuild, 1)
StoreForce(c) ==
    /\ pc[c] = "store"
    /\ forceRebuild' = 1
    /\ pc' = [pc EXCEPT ![c] = "unlock"]
    /\ UNCHANGED <<m, requested, call, last, storeVars, crlVars>>

\* The deferred cb.m.Unlock(), and the return.  A request that returns here
\* has completed: requested says so until a build consumes it.
Unlock(c) ==
    /\ pc[c] = "unlock"
    /\ m' = 0
    /\ requested' = (requested \/ call[c].op = "requestRebuildIfActiveNode")
    /\ UNCHANGED <<forceRebuild, storeVars, crlVars>>
    /\ Return(c, call[c])

NextBuilder ==
    \E c \in Callers :
        \/ CallRebuildIfForced(c)
        \/ CallRebuild(c)
        \/ CallRequestRebuild(c)
        \/ Lock(c)
        \/ Check(c)
        \/ Build(c)
        \/ ClearForce(c)
        \/ StoreForce(c)
        \/ Unlock(c)

SpecBuilder == InitBuilder /\ [][NextBuilder]_vars

\* The callers that are inside buildCRLs
Building == {c \in Callers : pc[c] = "build"}

\* C7: at most one caller is inside buildCRLs at any time, however the
\* callers of rebuild, rebuildIfForced and requestRebuildIfActiveNode
\* interleave.
C7_OneBuildAtATime == Cardinality(Building) <= 1

\* One caller is inside buildCRLs while another waits for the mutex
C7_Witness ==
    \E c, d \in Callers :
        /\ pc[c] = "build"
        /\ pc[d] = "lock"
        /\ m = c

\* C8: a request that has completed stays visible until a build consumes it,
\* and a rebuildIfForced or rebuild call that meets it (no build since the
\* request) runs buildCRLs with the force flag set.
C8_RequestObserved ==
    /\ requested => forceRebuild = 1
    /\ (last.op \in {"rebuildIfForced", "rebuild"} /\ last.req)
       => (last.built /\ last.force)

\* A rebuild called with forceNew = FALSE met a completed request and built
\* with the force flag set
C8_Witness ==
    /\ last.op = "rebuild"
    /\ ~last.forceNew
    /\ last.req
    /\ last.built
    /\ last.force

\* The replication states of a node that is not the active node of its
\* cluster: a performance standby or a DR secondary
OnReplica(repl) ==
    "ReplicationPerformanceStandby" \in repl \/ "ReplicationDRSecondary" \in repl

\* C9: requestRebuildIfActiveNode leaves the builder force-pending on an
\* active node, leaves the flag as it found it on a standby or secondary
\* without touching the mutex, and runs no build on either.
C9_RequestOnlySchedules ==
    last.op = "requestRebuildIfActiveNode" =>
        /\ ~last.built
        /\ last.wrote = {}
        /\ IF OnReplica(last.repl)
           THEN ~last.locked /\ last.after = last.before
           ELSE last.locked /\ last.after = 1

\* A DR secondary asked for a rebuild while the builder was idle, and the
\* builder is still idle
C9_Witness ==
    /\ last.op = "requestRebuildIfActiveNode"
    /\ "ReplicationDRSecondary" \in last.repl
    /\ last.before = 0
    /\ forceRebuild = 0

\* C10: a rebuildIfForced call that finds the builder force-pending, with
\* no other caller about, runs buildCRLs with the force flag set and leaves
\* the builder idle; one that finds it idle returns without the mutex,
\* without a build and without a write.
C10_RebuildIfForced ==
    /\ [](last.op = "rebuildIfForced" =>
            /\ (last.before = 1 /\ last.alone)
               => (last.built /\ last.force /\ last.after = 0)
            /\ last.before = 0
               => (~last.locked /\ ~last.built /\ last.wrote = {}))
    /\ [][(last' # last /\ last'.op = "rebuildIfForced" /\ last'.before = 0)
            => UNCHANGED <<forceRebuild, m, pc, call, requested, storeVars, crlVars>>]_vars

\* A lone rebuildIfForced met a pending request and rebuilt the root's CRL
C10_Witness ==
    /\ last.op = "rebuildIfForced"
    /\ last.before = 1
    /\ last.alone
    /\ last.built
    /\ last.force
    /\ last.wrote # {}
    /\ forceRebuild = 0


\* C11: rebuild(forceNew) always runs buildCRLs, whether or not a rebuild is
\* pending (it takes no cluster role into account); the force flag it passes
\* to buildCRLs is the pending flag OR forceNew; and the builder is idle when
\* it returns.
C11_RebuildAlwaysBuilds ==
    /\ [](last.op = "rebuild" => (last.built /\ last.after = 0))
    /\ [][\A c \in Callers :
            (pc[c] = "check" /\ pc'[c] # "check" /\ call[c].op = "rebuild")
            => /\ pc'[c] = "build"
               /\ call'[c].force = (forceRebuild = 1 \/ call[c].forceNew)]_vars

\* A rebuild(false) that found a request pending built with the force flag
\* set and left the builder idle
C11_Witness ==
    /\ last.op = "rebuild"
    /\ ~last.forceNew
    /\ last.force
    /\ last.built
    /\ last.after = 0

-----------------------------------------------------------------------------
(* The storage layer one call at a time, with a delete taken as the two    *)
(* storage writes it makes, and with the materials callers may pass:       *)
(* well-formed and malformed ones, and one key pair in two encodings       *)

KeyMaterials ==
    { <<"K1">>, <<"K1p8">>, <<"K2", "NL">>, <<"JUNK">>, <<"CA1">> }

CertMaterials ==
    { <<"CA1">>, <<"CA2", "NL">>, <<"LEAF">>, <<"CA1", "NL", "CA2">>,
      <<"CA1", "JUNK">>, <<"JUNK">>, <<"K1">> }

SeqImportKey ==
    /\ pc[1] = "idle"
    /\ \E keyValue \in KeyMaterials : importKey(keyValue, "n1")
    /\ UNCHANGED <<issuerConfig, crlVars, builderVars>>

SeqImportIssuer ==
    /\ pc[1] = "idle"
    /\ \E certValue \in CertMaterials : importIssuer(certValue, "n1")
    /\ UNCHANGED <<keyConfig, crlVars, builderVars>>

\* A faulty first write that removes the entry and leaves the pointer
deleteKeyEntryFirst(c, id) ==
    /\ keys' = Delete(keys, id)
    /\ call' = [call EXCEPT ![c] = [NoResult EXCEPT !.op = "deleteKey", !.id = id,
                                       !.wasDefault = keyConfig.DefaultKeyId = id]]
    /\ UNCHANGED keyConfig

\* deleteKey up to setKeysConfig: the default pointer is cleared when it
\* names the key
deleteKeyConfig(c, id) ==
    LET wasDefault == keyConfig.DefaultKeyId = id
    IN  /\ keyConfig' = IF wasDefault THEN [DefaultKeyId |-> NoId] ELSE keyConfig
        /\ call' = [call EXCEPT ![c] = [NoResult EXCEPT !.op = "deleteKey", !.id = id,
                                           !.wasDefault = wasDefault]]
        /\ UNCHANGED keys

\* deleteKey's s.Delete of the entry, and the return
deleteKeyEntry(c) ==
    /\ keys' = Delete(keys, call[c].id)
    /\ last' = call[c]
    /\ call' = [call EXCEPT ![c] = NoResult]

\* deleteIssuer up to setIssuersConfig
deleteIssuerConfig(c, id) ==
    LET wasDefault == issuerConfig.DefaultIssuerId = id
    IN  /\ issuerConfig' = IF wasDefault THEN [DefaultIssuerId |-> NoId]
                           ELSE issuerConfig
        /\ call' = [call EXCEPT ![c] = [NoResult EXCEPT !.op = "deleteIssuer",
                                           !.id = id, !.wasDefault = wasDefault]]
        /\ UNCHANGED issuers

\* deleteIssuer's s.Delete of the entry, and the return
deleteIssuerEntry(c) ==
    /\ issuers' = Delete(issuers, call[c].id)
    /\ last' = call[c]
    /\ call' = [call EXCEPT ![c] = NoResult]

SeqDeleteKeyConfig ==
    /\ pc[1] = "idle"
    /\ \E id \in DOMAIN keys : deleteKeyConfig(1, id)
    /\ pc' = [pc EXCEPT ![1] = "delete"]
    /\ UNCHANGED <<issuers, issuerConfig, usedIds, last, crlVars,
                   forceRebuild, m, requested>>

SeqDeleteKeyEntry ==
    /\ pc[1] = "delete"
    /\ call[1].op = "deleteKey"
    /\ deleteKeyEntry(1)
    /\ pc' = [pc EXCEPT ![1] = "idle"]
    /\ UNCHANGED <<keyConfig, issuers, issuerConfig, usedIds, crlVars,
                   forceRebuild, m, requested>>

SeqDeleteIssuerConfig ==
    /\ pc[1] = "idle"
    /\ \E id \in DOMAIN issuers : deleteIssuerConfig(1, id)
    /\ pc' = [pc EXCEPT ![1] = "delete"]
    /\ UNCHANGED <<keys, keyConfig, usedIds, last, crlVars,
                   forceRebuild, m, requested>>

SeqDeleteIssuerEntry ==
    /\ pc[1] = "delete"
    /\ call[1].op = "deleteIssuer"
    /\ deleteIssuerEntry(1)
    /\ pc' = [pc EXCEPT ![1] = "idle"]
    /\ UNCHANGED <<issuerConfig, keys, keyConfig, usedIds, crlVars,
                   forceRebuild, m, requested>>

NextSeq ==
    \/ SeqImportKey
    \/ SeqImportIssuer
    \/ SeqDeleteKeyConfig
    \/ SeqDeleteKeyEntry
    \/ SeqDeleteIssuerConfig
    \/ SeqDeleteIssuerEntry

SpecSeq == Init /\ [][NextSeq]_vars

\* C12: from empty storage, under any sequence of importKey, importIssuer,
\* deleteKey and deleteIssuer calls, the default key pointer is empty or the
\* identifier of a stored key, and the default issuer pointer is empty or the
\* identifier of a stored issuer; a delete has cleared the pointer before it
\* removes the entry, so this holds between its two writes as well.
C12_DefaultsPointAtStored ==
    /\ keyConfig.DefaultKeyId \in {NoId} \cup DOMAIN keys
    /\ issuerConfig.DefaultIssuerId \in {NoId} \cup DOMAIN issuers
    /\ \A c \in Callers :
          /\ (pc[c] = "delete" /\ call[c].op = "deleteKey")
             => (call[c].id \in DOMAIN keys /\ keyConfig.DefaultKeyId # call[c].id)
          /\ (pc[c] = "delete" /\ call[c].op = "deleteIssuer")
             => /\ call[c].id \in DOMAIN issuers
                /\ issuerConfig.DefaultIssuerId # call[c].id

\* A deleteKey of the default key, one of two stored keys, stands between
\* its two writes: the pointer is empty and the entry is still stored
C12_Witness ==
    /\ pc[1] = "delete"
    /\ call[1].op = "deleteKey"
    /\ call[1].wasDefault
    /\ call[1].id \in DOMAIN keys
    /\ Cardinality(DOMAIN keys) = 2
    /\ keyConfig.DefaultKeyId = NoId
    /\ issuerConfig.DefaultIssuerId \in DOMAIN issuers

-----------------------------------------------------------------------------
(* Deletes, default promotion and links under the calls of SpecStore *)

\* C13: deleteKey(id) returns wasDefault = TRUE and leaves the default key
\* pointer empty exactly when id was the default key before the call;
\* otherwise it returns FALSE and leaves the pointer as it was.  In both
\* cases the entry is removed and no other entry is.  deleteIssuer likewise.
C13_DeleteReportsDefault ==
    [][ /\ (last'.op = "deleteKey" /\ keys' # keys) =>
              /\ DOMAIN keys' = DOMAIN keys \ {last'.id}
              /\ last'.id \in DOMAIN keys
              /\ \A k \in DOMAIN keys' : keys'[k] = keys[k]
              /\ IF keyConfig.DefaultKeyId = last'.id
                 THEN last'.wasDefault /\ keyConfig'.DefaultKeyId = NoId
                 ELSE ~last'.wasDefault /\ keyConfig' = keyConfig
        /\ (last'.op = "deleteIssuer" /\ issuers' # issuers) =>
              /\ DOMAIN issuers' = DOMAIN issuers \ {last'.id}
              /\ last'.id \in DOMAIN issuers
              /\ \A i \in DOMAIN issuers' : issuers'[i] = issuers[i]
              /\ IF issuerConfig.DefaultIssuerId = last'.id
                 THEN last'.wasDefault /\ issuerConfig'.DefaultIssuerId = NoId
                 ELSE ~last'.wasDefault /\ issuerConfig' = issuerConfig ]_vars

\* The default key, one of two, was deleted: the call said so, the other key
\* is still stored and no key is the default
C13_Witness ==
    /\ last.op = "deleteKey"
    /\ last.wasDefault
    /\ last.id \notin DOMAIN keys
    /\ keys # <<>>
    /\ keyConfig.DefaultKeyId = NoId

\* Storage as earlier calls may have left it: empty, or holding a key and an
\* issuer imported second, after the first ones (the defaults) were deleted
InitPromote ==
    /\ \/ /\ keys = <<>>
          /\ issuers = <<>>
          /\ usedIds = [key |-> {}, issuer |-> {}]
       \/ /\ keys = Put(<<>>, 1, [ID |-> 1, Name |-> "n1",
                                  PrivateKey |-> <<"K2", "NL">>])
          /\ issuers = Put(<<>>, 1, [ID |-> 1, Name |-> "n1", KeyID |-> 1,
                                     Certificate |-> <<"CA2", "NL">>])
          /\ usedIds = [key |-> {1}, issuer |-> {1}]
    /\ keyConfig = [DefaultKeyId |-> NoId]
    /\ issuerConfig = [DefaultIssuerId |-> NoId]
    /\ crlConfig = [IssuerIDCRLMap |-> <<>>, CRLNumberMap |-> <<>>]
    /\ crls = <<>>
    /\ revoked = <<>>
    /\ crlDisable = FALSE
    /\ forceRebuild = 0
    /\ m = 0
    /\ pc = [c \in Callers |-> "idle"]
    /\ call = [c \in Callers |-> NoResult]
    /\ now = TicksPerSecond + 1
    /\ requested = FALSE
    /\ last = NoResult

SpecPromote == InitPromote /\ [][NextStore]_vars

\* C14: an import that stores a new key makes it the default key when the
\* store held no key or no default key was configured before the call (even
\* if other keys are stored), and leaves the default key unchanged otherwise:
\* the first key imported into an empty store becomes the default and a
\* second, different one does not replace it.  An import that returns an
\* existing entry or fails leaves the default unchanged.  Issuers likewise.
C14_DefaultPromotion ==
    [][ /\ last'.op = "importKey" =>
              IF keys' = keys THEN keyConfig' = keyConfig
              ELSE IF keys = <<>> \/ keyConfig.DefaultKeyId = NoId
              THEN keyConfig'.DefaultKeyId = last'.id /\ last'.id \in DOMAIN keys'
              ELSE keyConfig' = keyConfig
        /\ last'.op = "importIssuer" =>
              IF issuers' = issuers THEN issuerConfig' = issuerConfig
              ELSE IF issuers = <<>> \/ issuerConfig.DefaultIssuerId = NoId
              THEN /\ issuerConfig'.DefaultIssuerId = last'.id
                   /\ last'.id \in DOMAIN issuers'
              ELSE issuerConfig' = issuerConfig ]_vars

\* A key imported next to a stored key that was not the default became the
\* default key
C14_Witness ==
    /\ last.op = "importKey"
    /\ ~last.existed
    /\ ~last.err
    /\ Cardinality(DOMAIN keys) = 2
    /\ keyConfig.DefaultKeyId = last.id

-----------------------------------------------------------------------------
(* Links and public keys under the calls of SpecSeq *)

\* C15: no import changes an issuer's KeyID once it is non-empty: importKey
\* sets KeyID only on issuers whose KeyID is empty, and importIssuer leaves
\* the KeyID of every stored issuer as it is, empty or not.
C15_KeyIDSetOnce ==
    [][ last'.op \in {"importKey", "importIssuer"} =>
          \A i \in DOMAIN issuers :
              /\ i \in DOMAIN issuers'
              /\ issuers[i].KeyID # NoId => issuers'[i].KeyID = issuers[i].KeyID
              /\ last'.op = "importIssuer"
                 => issuers'[i].KeyID = issuers[i].KeyID ]_vars

\* A key was imported whose public key is that of an issuer already linked
\* to another stored key, and the issuer kept its link
C15_Witness ==
    /\ last.op = "importKey"
    /\ ~last.existed
    /\ ~last.err
    /\ last.id \in DOMAIN keys
    /\ \E i \in DOMAIN issuers :
          /\ issuers[i].KeyID \in DOMAIN keys \ {last.id}
          /\ GetCertificate(issuers[i].Certificate).cert.PublicKey
                = GetSigner(keys[last.id].PrivateKey)

\* C16: after any sequence of importKey calls no two stored keys have the
\* same public key (importIssuer relies on this when it links to the first
\* matching key).
C16_OneKeyPerPublicKey ==
    \A k1, k2 \in DOMAIN keys :
        k1 # k2 => GetSigner(keys[k1].PrivateKey) # GetSigner(keys[k2].PrivateKey)

-----------------------------------------------------------------------------
(* Imports under concurrent callers.  Each caller is a goroutine inside    *)
(* importKey or importIssuer; a step is the storage reads up to the next   *)
(* write together with that write, pc is where the caller stands and call  *)
(* holds its local variables.  Storage starts empty.                       *)

RaceKeyTexts == { <<"K1">>, <<"K1", "NL">>, <<"JUNK">> }

RaceCertTexts == { <<"CA1">>, <<"SP", "CA1">>, <<"LEAF">> }

crlBuilderVars == <<forceRebuild, m, requested>>

\* importKey up to writeKey: the listings, the search for equal material
\* and the parse of the key
ImportKeyScan(c) ==
    \E keyValue \in RaceKeyTexts :
        LET kv == Normalize(keyValue)
            found == FirstAmong(listKeys,
                                {k \in DOMAIN keys : keys[k].PrivateKey = kv})
            ret == [NoResult EXCEPT !.op = "importKey", !.arg = "n1"]
        IN  /\ pc[c] = "idle"
            /\ IF found # NoId
               THEN /\ last' = [ret EXCEPT !.existed = TRUE, !.id = found,
                                   !.name = keys[found].Name]
                    /\ UNCHANGED <<pc, call>>
               ELSE IF GetSigner(kv) = "none"
               THEN /\ last' = [ret EXCEPT !.err = TRUE]
                    /\ UNCHANGED <<pc, call>>
               ELSE /\ pc' = [pc EXCEPT ![c] = "writeKey"]
                    /\ call' = [call EXCEPT ![c] =
                                  [op |-> "importKey", text |-> kv,
                                   knownKeys |-> listKeys,
                                   knownIssuers |-> listIssuers, id |-> NoId]]
                    /\ UNCHANGED last
            /\ UNCHANGED <<keys, issuers, keyConfig, issuerConfig, usedIds,
                           crlVars, crlBuilderVars>>

\* writeKey
ImportKeyWrite(c) ==
    /\ pc[c] = "writeKey"
    /\ \E newId \in genKeyId :
          /\ usedIds' = [usedIds EXCEPT !.key = @ \cup {newId}]
          /\ keys' = Put(keys, newId, [ID |-> newId, Name |-> "n1",
                                       PrivateKey |-> call[c].text])
          /\ call' = [call EXCEPT ![c].id = newId]
    /\ pc' = [pc EXCEPT ![c] = "linkKey"]
    /\ UNCHANGED <<issuers, keyConfig, issuerConfig, last, crlVars,
                   crlBuilderVars>>

\* The link loop over the issuers listed at the start
ImportKeyLink(c) ==
    /\ pc[c] = "linkKey"
    /\ issuers' = LinkIssuersToKey(Range(call[c].knownIssuers), call[c].id,
                                   GetSigner(call[c].text))
    /\ pc' = [pc EXCEPT ![c] = "defaultKey"]
    /\ UNCHANGED <<keys, keyConfig, issuerConfig, usedIds, call, last, crlVars,
                   crlBuilderVars>>

\* The default step, and the return
ImportKeyDefault(c) ==
    /\ pc[c] = "defaultKey"
    /\ keyConfig' = KeyDefaultAfterImport(Range(call[c].knownKeys), call[c].id)
    /\ last' = [NoResult EXCEPT !.op = "importKey", !.arg = "n1",
                                !.id = call[c].id, !.name = "n1"]
    /\ pc' = [pc EXCEPT ![c] = "idle"]
    /\ call' = [call EXCEPT ![c] = NoResult]
    /\ UNCHANGED <<keys, issuers, issuerConfig, usedIds, crlVars, crlBuilderVars>>

\* importIssuer up to the write of the issuer: the listings, the search for
\* equal material and the validation of the certificate
ImportIssuerScan(c) ==
    \E certValue \in RaceCertTexts :
        LET cv == Normalize(certValue)
            found == FirstAmong(listIssuers,
                                {i \in DOMAIN issuers : issuers[i].Certificate = cv})
            parsed == GetCertificate(cv)
            ret == [NoResult EXCEPT !.op = "importIssuer", !.arg = "n1"]
        IN  /\ pc[c] = "idle"
            /\ IF found # NoId
               THEN /\ last' = [ret EXCEPT !.existed = TRUE, !.id = found,
                                   !.name = issuers[found].Name,
                                   !.keyId = issuers[found].KeyID]
                    /\ UNCHANGED <<pc, call>>
               ELSE IF CountBlocks(cv) # 1 \/ ~parsed.ok \/ ~parsed.cert.IsCA
               THEN /\ last' = [ret EXCEPT !.err = TRUE]
                    /\ UNCHANGED <<pc, call>>
               ELSE /\ pc' = [pc EXCEPT ![c] = "writeIssuer"]
                    /\ call' = [call EXCEPT ![c] =
                                  [op |-> "importIssuer", text |-> cv,
                                   knownKeys |-> listKeys,
                                   knownIssuers |-> listIssuers, id |-> NoId]]
                    /\ UNCHANGED last
            /\ UNCHANGED <<keys, issuers, keyConfig, issuerConfig, usedIds,
                           crlVars, crlBuilderVars>>

\* The search for the certificate's key among the keys listed at the start,
\* and the write of the issuer
ImportIssuerWrite(c) ==
    /\ pc[c] = "writeIssuer"
    /\ \E newId \in genIssuerId :
          /\ usedIds' = [usedIds EXCEPT !.issuer = @ \cup {newId}]
          /\ issuers' = Put(issuers, newId,
                            [ID |-> newId, Name |-> "n1",
                             KeyID |-> KeyOfCertificate(
                                           call[c].knownKeys,
                                           GetCertificate(call[c].text).cert),
                             Certificate |-> call[c].text])
          /\ call' = [call EXCEPT ![c].id = newId]
    /\ pc' = [pc EXCEPT ![c] = "defaultIssuer"]
    /\ UNCHANGED <<keys, keyConfig, issuerConfig, last, crlVars, crlBuilderVars>>

\* The default step, and the return
ImportIssuerDefault(c) ==
    /\ pc[c] = "defaultIssuer"
    /\ issuerConfig' = IssuerDefaultAfterImport(Range(call[c].knownIssuers),
                                                call[c].id)
    /\ last' = [NoResult EXCEPT !.op = "importIssuer", !.arg = "n1",
                                !.id = call[c].id, !.name = "n1",
                                !.keyId = issuers[call[c].id].KeyID]
    /\ pc' = [pc EXCEPT ![c] = "idle"]
    /\ call' = [call EXCEPT ![c] = NoResult]
    /\ UNCHANGED <<keys, issuers, keyConfig, usedIds, crlVars, crlBuilderVars>>

NextRace ==
    \E c \in Callers :
        \/ ImportKeyScan(c)
        \/ ImportKeyWrite(c)
        \/ ImportKeyLink(c)
        \/ ImportKeyDefault(c)
        \/ ImportIssuerScan(c)
        \/ ImportIssuerWrite(c)
        \/ ImportIssuerDefault(c)

SpecRace == Init /\ [][NextRace]_vars

\* C17: when two concurrent importKey calls (or two concurrent importIssuer
\* calls) pass the same normalized material, exactly one entry holds that
\* material after both have returned.
C17_ConcurrentImportsStoreOnce ==
    (\A c \in Callers : pc[c] = "idle") =>
        /\ \A k1, k2 \in DOMAIN keys :
              k1 # k2 => keys[k1].PrivateKey # keys[k2].PrivateKey
        /\ \A i1, i2 \in DOMAIN issuers :
              i1 # i2 => issuers[i1].Certificate # issuers[i2].Certificate

-----------------------------------------------------------------------------
(* The calls of SpecSeq over a backing store whose calls may fail: an      *)
(* importKey that has written its key may meet a storage error in the link *)
(* loop and return it                                                      *)

\* importKey when fetchIssuerById or writeIssuer fails in the link loop: the
\* key has been written, no issuer and no default has been, and the error is
\* returned.  The loop runs, and so can fail, when an issuer is listed.
importKeyLinkFails(keyValue, keyName) ==
    LET kv == Normalize(keyValue)
        sameKey == {k \in DOMAIN keys : keys[k].PrivateKey = kv}
    IN  /\ FirstAmong(listKeys, sameKey) = NoId
        /\ GetSigner(kv) # "none"
        /\ listIssuers # <<>>
        /\ \E newId \in genKeyId :
              /\ usedIds' = [usedIds EXCEPT !.key = @ \cup {newId}]
              /\ keys' = Put(keys, newId,
                             [ID |-> newId, Name |-> keyName, PrivateKey |-> kv])
        /\ last' = [NoResult EXCEPT !.op = "importKey", !.arg = keyName,
                                    !.err = TRUE]
        /\ UNCHANGED <<issuers, keyConfig>>

SeqImportKeyLinkFails ==
    /\ pc[1] = "idle"
    /\ \E keyValue \in KeyMaterials : importKeyLinkFails(keyValue, "n1")
    /\ UNCHANGED <<issuerConfig, crlVars, builderVars>>

NextFault == NextSeq \/ SeqImportKeyLinkFails

SpecFault == Init /\ [][NextFault]_vars

\* C18: after importKey returns without error, whether it created the key
\* or returned a stored one with existed = TRUE, no stored issuer whose
\* certificate carries that key's public key has an empty KeyID.
C18_ImportKeyLeavesNoUnlinked ==
    (last.op = "importKey" /\ ~last.err /\ last.id \in DOMAIN keys) =>
        \A i \in DOMAIN issuers :
            ComparePublicKeysAndType(
                GetCertificate(issuers[i].Certificate).cert.PublicKey,
                GetSigner(keys[last.id].PrivateKey))
            => issuers[i].KeyID # NoId

\* A text that holds exactly one PEM block, with nothing but whitespace
\* after it, and whose block is a CA certificate
ValidIssuerMaterial(text) ==
    LET blocks == SelectSeq(text, IsBlock)
        trimmed == TrimRight(text)
    IN  /\ Len(blocks) = 1
        /\ trimmed[Len(trimmed)] = blocks[1]
        /\ blocks[1] \in CertBodies
        /\ CertInfo(blocks[1]).IsCA

\* A text whose PEM block is a private key
ValidKeyMaterial(text) ==
    LET blocks == SelectSeq(text, IsBlock)
    IN  blocks # <<>> /\ blocks[1] \in KeyBodies

\* C19: importIssuer rejects exactly the material that is not one PEM block
\* without trailing data or is not a CA certificate, importKey exactly the
\* material it cannot parse as a signer; a rejected import stores no entry
\* and leaves every entry, every link and both default pointers unchanged.
C19_RejectedImportStoresNothing ==
    [][ (pc[1] = "idle" /\ pc'[1] = "idle") =>
          /\ last'.op = "importIssuer" =>
                \A certValue \in CertMaterials :
                    importIssuer(certValue, "n1")
                    => /\ last'.err <=> ~ValidIssuerMaterial(certValue)
                       /\ last'.err =>
                            UNCHANGED <<keys, issuers, keyConfig, issuerConfig>>
          /\ last'.op = "importKey" =>
                \A keyValue \in KeyMaterials :
                    importKey(keyValue, "n1")
                    => /\ last'.err <=> ~ValidKeyMaterial(keyValue)
                       /\ last'.err =>
                            UNCHANGED <<keys, issuers, keyConfig, issuerConfig>> ]_vars

\* An import was rejected while keys and issuers were stored, one of them
\* linked and the defaults set
C19_Witness ==
    /\ last.op = "importIssuer"
    /\ last.err
    /\ keyConfig.DefaultKeyId \in DOMAIN keys
    /\ issuerConfig.DefaultIssuerId \in DOMAIN issuers
    /\ \E i \in DOMAIN issuers : issuers[i].KeyID \in DOMAIN keys

-----------------------------------------------------------------------------
(* buildCRL on its own: a mount with two roots whose config/crl enables or *)
(* disables the CRL, and calls of buildCRL with the arguments buildCRLs    *)
(* may pass, after keys may have been deleted                              *)

RevokedLists ==
    { <<>>,
      <<[SerialNumber |-> 1, RevocationTime |-> FromUnix(1)],
        [SerialNumber |-> 2, RevocationTime |-> FromUnix(2)]>> }

BuildIdentifiers == {1, 2}

BuildNumbers == {1, 2}

InitBuildCRL ==
    /\ Provisioned([keys |-> <<"K1", "K2">>, certs |-> <<"CA1", "CA2">>])
    /\ crlConfig = [IssuerIDCRLMap |-> <<>>, CRLNumberMap |-> <<>>]
    /\ crls = <<>>
    /\ revoked = <<>>
    /\ crlDisable \in BOOLEAN
    /\ forceRebuild = 0
    /\ m = 0
    /\ pc = [c \in Callers |-> "idle"]
    /\ call = [c \in Callers |-> NoResult]
    /\ now = TicksPerSecond + 1
    /\ requested = FALSE
    /\ last = NoResult

\* One call of buildCRL; last keeps its arguments, the CRL documents before
\* the call and what the call wrote and returned
BuildCRL ==
    \E forceNew \in BOOLEAN, thisIssuerId \in SigningIssuers,
       revokedCerts \in RevokedLists, identifier \in BuildIdentifiers,
       crlNumber \in BuildNumbers :
        \E R \in {buildCRL([cfg |-> crlConfig, crls |-> crls, wrote |-> {},
                            err |-> FALSE, capped |-> FALSE],
                           forceNew, thisIssuerId, revokedCerts, identifier,
                           crlNumber)} :
            /\ crls' = R.crls
            /\ last' = [op |-> "buildCRL", forceNew |-> forceNew,
                        thisIssuerId |-> thisIssuerId, revoked |-> revokedCerts,
                        identifier |-> identifier, crlNumber |-> crlNumber,
                        err |-> R.err, wrote |-> R.wrote, prev |-> crls]
            /\ UNCHANGED <<storeVars, lockVars, forceRebuild, requested,
                           crlConfig, revoked, crlDisable, now>>

NextBuildCRL == DeleteKey \/ BuildCRL

SpecBuildCRL == InitBuildCRL /\ [][NextBuildCRL]_vars

\* The serial numbers a list of revoked certificates names, in order
SerialsOf(list) == [n \in 1 .. Len(list) |-> list[n].SerialNumber]

\* C20: with the CRL disabled and the call not forced, buildCRL succeeds and
\* writes no CRL document; with the CRL disabled and the call forced, it
\* writes a document with an empty revoked list; with the CRL enabled it
\* writes the full revoked set it was given.  It writes under the identifier
\* passed in only, and every document it writes carries the sequence number
\* passed in as its Number.
C20_BuildCRLDisableAndForce ==
    last.op = "buildCRL" =>
        /\ \A id \in (DOMAIN crls \cup DOMAIN last.prev) \ last.wrote :
              id \in DOMAIN crls /\ id \in DOMAIN last.prev
              /\ crls[id] = last.prev[id]
        /\ last.wrote \subseteq {last.identifier}
        /\ (crlDisable /\ ~last.forceNew) => (~last.err /\ last.wrote = {})
        /\ (~last.err /\ ~(crlDisable /\ ~last.forceNew))
              => last.wrote = {last.identifier}
        /\ \A id \in last.wrote :
              /\ id \in DOMAIN crls
              /\ crls[id].Number = last.crlNumber
              /\ SerialsOf(crls[id].RevokedCertificates)
                    = IF crlDisable THEN <<>> ELSE SerialsOf(last.revoked)

\* A forced buildCRL with the CRL disabled was given two revoked
\* certificates and wrote an empty CRL with Number 2 over an earlier one
C20_Witness ==
    /\ last.op = "buildCRL"
    /\ crlDisable
    /\ last.forceNew
    /\ last.revoked # <<>>
    /\ last.crlNumber = 2
    /\ last.identifier \in DOMAIN last.prev
    /\ last.wrote = {last.identifier}
    /\ crls[last.identifier].Number = 2
    /\ crls[last.identifier].RevokedCertificates = <<>>

-----------------------------------------------------------------------------
(* revokeCert with every kind of call: a mount with one root and its       *)
(* reissued certificate, serials that are active, expired, about to        *)
(* expire, a CA's, or unknown, calls from lease expiry or not, on a mount  *)
(* that is being torn down or not; issuers may be deleted in between       *)

\* 6 is the serial of no certificate under certs/
RevokeInputs == {1, 3, 4, 5, 6}

InitRevoke ==
    /\ Provisioned([keys |-> <<"K1">>, certs |-> <<"CA1", "CA1b">>])
    /\ crlConfig = [IssuerIDCRLMap |-> <<>>, CRLNumberMap |-> <<>>]
    /\ crls = <<>>
    /\ revoked = <<>>
    /\ crlDisable = FALSE
    /\ forceRebuild = 0
    /\ m = 0
    /\ pc = [c \in Callers |-> "idle"]
    /\ call = [c \in Callers |-> NoResult]
    /\ now = TicksPerSecond + 1
    /\ requested = FALSE
    /\ last = NoResult

RevokeCertAny ==
    \E serial \in RevokeInputs, fromLease \in BOOLEAN, tainted \in BOOLEAN,
       t \in now .. MaxTime :
        /\ now' = t
        /\ revokeCert(serial, fromLease, tainted, t)
        /\ UNCHANGED <<storeVars, lockVars, crlDisable>>

NextRevoke == RevokeCertAny \/ DeleteIssuer

SpecRevoke == InitRevoke /\ [][NextRevoke]_vars

\* C21 as stated: a revokeCert of a serial that has a revocation record
\* leaves the whole stored record unchanged.
C21_RecordUnchanged ==
    [][ (last'.op = "revokeCert" /\ last'.serial \in DOMAIN revoked)
          => revoked' = revoked ]_vars

\* C21, amended: when a revocation record exists for the serial, a further
\* revokeCert writes no new record and leaves the certificate and the
\* revocation times of every stored record unchanged (the rebuild it runs
\* may write a newly found issuer attribution into a record); when it
\* returns a response, the response carries the recorded revocation time.
C21_RevokeIdempotent ==
    [][ (last'.op = "revokeCert" /\ last'.serial \in DOMAIN revoked) =>
          /\ DOMAIN revoked' = DOMAIN revoked
          /\ \A s \in DOMAIN revoked :
                /\ revoked'[s].CertificateBytes = revoked[s].CertificateBytes
                /\ revoked'[s].RevocationTime = revoked[s].RevocationTime
                /\ revoked'[s].RevocationTimeUTC = revoked[s].RevocationTimeUTC
          /\ last'.resp =>
                /\ last'.time = revoked[last'.serial].RevocationTime
                /\ last'.timeUTC = revoked[last'.serial].RevocationTimeUTC ]_vars

\* A serial revoked at an earlier time was revoked again, and the response
\* carried the time recorded then
C21_Witness ==
    /\ last.op = "revokeCert"
    /\ last.resp
    /\ last.serial \in DOMAIN revoked
    /\ last.timeUTC < now
    /\ revoked[last.serial].RevocationTimeUTC = last.timeUTC

\* The calls C22 is about: the mount is being torn down, or the serial has
\* no revocation record and its certificate expires within two seconds of
\* the call, or is a CA certificate revoked from lease expiry
NoOpCall(serial, fromLease, tainted, t) ==
    \/ tainted
    \/ /\ serial \notin DOMAIN revoked
       /\ serial \in LeafSerials
       /\ \/ LeafInfo(serial).NotAfter < t + GraceSeconds * TicksPerSecond
          \/ LeafInfo(serial).IsCA /\ fromLease

C23_NotFound ==
    [][ last'.op = "revokeCert" =>
          \A serial \in RevokeInputs \ LeafSerials, fromLease \in BOOLEAN,
             t \in now .. MaxTime :
              (/\ now' = t
               /\ serial \notin DOMAIN revoked
               /\ fetchCAInfoOk
               /\ revokeCert(serial, fromLease, FALSE, t))
              => /\ last'.err <=> ~fromLease
                 /\ ~last'.resp
                 /\ ~last'.built
                 /\ UNCHANGED <<revoked, crls, crlConfig, forceRebuild>> ]_vars

\* The revocation of an unknown serial was refused on a mount that has a
\* default CA and a revoked certificate
C23_Witness ==
    /\ last.op = "revokeCert"
    /\ last.serial \notin LeafSerials
    /\ last.err
    /\ ~last.built
    /\ fetchCAInfoOk
    /\ revoked # <<>>

-----------------------------------------------------------------------------
(* The records of the storage layer as they lie in the backing store.  In  *)
(* this section keys, issuers, keyConfig, issuerConfig and crlConfig hold  *)
(* what is stored under config/key/, config/issuer/, config/keys,          *)
(* config/issuers and crls/config: JSON documents, written by              *)
(* logical.StorageEntryJSON and read by StorageEntry.DecodeJSON.  A        *)
(* document is valid JSON of the expected types or not, and when valid it  *)
(* maps JSON tags to values.  A Go slice or map is nil or holds items.     *)

NilSlice == [nil |-> TRUE, items |-> <<>>]

Slice(items) == [nil |-> FALSE, items |-> items]

NilMap == [nil |-> TRUE, map |-> <<>>]

MakeMap(map) == [nil |-> FALSE, map |-> map]

\* json.Marshal of a slice or map: null for nil
JsonNull == [null |-> TRUE, items |-> <<>>]

EncodeSlice(s) == IF s.nil THEN JsonNull ELSE [null |-> FALSE, items |-> s.items]

EncodeMap(mp) == IF mp.nil THEN JsonNull ELSE [null |-> FALSE, items |-> mp.map]

\* json.Unmarshal into a nil slice or map field: null leaves it nil, an
\* array or object allocates
DecodeSlice(j) == IF j.null THEN NilSlice ELSE Slice(j.items)

DecodeMap(j) == IF j.null THEN NilMap ELSE MakeMap(j.items)

\* A stored entry that is not JSON of the expected types
CorruptDoc == [valid |-> FALSE, fields |-> <<>>]

\* The value of a tag, the zero value when the document lacks the tag
Field(doc, tag, zero) ==
    IF tag \in DOMAIN doc.fields THEN doc.fields[tag] ELSE zero

\* logical.StorageEntryJSON of a keyEntry
EncodeKeyEntry(e) ==
    [valid |-> TRUE,
     fields |-> [id |-> e.ID, name |-> e.Name,
                 private_key_type |-> e.PrivateKeyType,
                 private_key |-> e.PrivateKey]]

\* DecodeJSON into a keyEntry
DecodeKeyEntry(doc) ==
    [ID |-> Field(doc, "id", NoId),
     Name |-> Field(doc, "name", ""),
     PrivateKeyType |-> Field(doc, "private_key_type", ""),
     PrivateKey |-> Field(doc, "private_key", <<>>)]

\* logical.StorageEntryJSON of an issuerEntry
EncodeIssuerEntry(e) ==
    [valid |-> TRUE,
     fields |-> [id |-> e.ID, name |-> e.Name, key_id |-> e.KeyID,
                 certificate |-> e.Certificate,
                 ca_chain |-> EncodeSlice(e.CAChain),
                 manual_chain |-> EncodeSlice(e.ManualChain),
                 serial_number |-> e.SerialNumber,
                 not_after_behavior |-> e.LeafNotAfterBehavior]]

\* DecodeJSON into an issuerEntry
DecodeIssuerEntry(doc) ==
    [ID |-> Field(doc, "id", NoId),
     Name |-> Field(doc, "name", ""),
     KeyID |-> Field(doc, "key_id", NoId),
     Certificate |-> Field(doc, "certificate", <<>>),
     CAChain |-> DecodeSlice(Field(doc, "ca_chain", JsonNull)),
     ManualChain |-> DecodeSlice(Field(doc, "manual_chain", JsonNull)),
     SerialNumber |-> Field(doc, "serial_number", ""),
     LeafNotAfterBehavior |-> Field(doc, "not_after_behavior", 0)]

\* The *keyEntry and *issuerEntry of a failed fetch: nil
NilEntry == [ID |-> NoId]

\* A faulty fetch that treats the empty identifier as an absent entry
fetchKeyByIdNoEmptyTest(keyId) ==
    IF keyId \notin DOMAIN keys
    THEN [errKind |-> "UserError", value |-> NilEntry]
    ELSE IF ~keys[keyId].valid
    THEN [errKind |-> "InternalError", value |-> NilEntry]
    ELSE [errKind |-> "none", value |-> DecodeKeyEntry(keys[keyId])]

fetchKeyById(keyId) ==
    IF keyId = NoId
    THEN [errKind |-> "InternalError", value |-> NilEntry]
    ELSE IF keyId \notin DOMAIN keys
    THEN [errKind |-> "UserError", value |-> NilEntry]
    ELSE IF ~keys[keyId].valid
    THEN [errKind |-> "InternalError", value |-> NilEntry]
    ELSE [errKind |-> "none", value |-> DecodeKeyEntry(keys[keyId])]

fetchIssuerById(issuerId) ==
    IF issuerId = NoId
    THEN [errKind |-> "InternalError", value |-> NilEntry]
    ELSE IF issuerId \notin DOMAIN issuers
    THEN [errKind |-> "UserError", value |-> NilEntry]
    ELSE IF ~issuers[issuerId].valid
    THEN [errKind |-> "InternalError", value |-> NilEntry]
    ELSE [errKind |-> "none", value |-> DecodeIssuerEntry(issuers[issuerId])]

\* ---------------------------------------------------------------------------
\* The config singletons as they lie in the backing store
\* ---------------------------------------------------------------------------

\* logical.StorageEntryJSON of a keyConfigEntry / issuerConfigEntry
EncodeKeyConfig(c) ==
    [valid |-> TRUE, fields |-> [default |-> c.DefaultKeyId]]

EncodeIssuerConfig(c) ==
    [valid |-> TRUE, fields |-> [default |-> c.DefaultIssuerId]]

\* logical.StorageEntryJSON of a localCRLConfigEntry
EncodeCRLConfig(c) ==
    [valid |-> TRUE,
     fields |-> [issuer_id_crl_map |-> EncodeMap(c.IssuerIDCRLMap),
                 crl_number_map |-> EncodeMap(c.CRLNumberMap)]]

\* entry.DecodeJSON into a localCRLConfigEntry
DecodeCRLConfig(doc) ==
    [IssuerIDCRLMap |-> DecodeMap(Field(doc, "issuer_id_crl_map", JsonNull)),
     CRLNumberMap |-> DecodeMap(Field(doc, "crl_number_map", JsonNull))]

\* A map of length zero is replaced by make(map)
NonNilMap(mp) == IF mp.map = <<>> THEN MakeMap(<<>>) ELSE mp

\* getKeysConfig, getIssuersConfig: an absent record is the zero value
getKeysConfig ==
    IF ~keyConfig.present THEN [errKind |-> "none", value |-> [DefaultKeyId |-> NoId]]
    ELSE IF ~keyConfig.doc.valid
    THEN [errKind |-> "InternalError", value |-> [DefaultKeyId |-> NoId]]
    ELSE [errKind |-> "none",
          value |-> [DefaultKeyId |-> Field(keyConfig.doc, "default", NoId)]]

getIssuersConfig ==
    IF ~issuerConfig.present
    THEN [errKind |-> "none", value |-> [DefaultIssuerId |-> NoId]]
    ELSE IF ~issuerConfig.doc.valid
    THEN [errKind |-> "InternalError", value |-> [DefaultIssuerId |-> NoId]]
    ELSE [errKind |-> "none",
          value |-> [DefaultIssuerId |-> Field(issuerConfig.doc, "default", NoId)]]

\* getLocalCRLConfig without the make(map) of its last lines
getLocalCRLConfigAsDecoded ==
    IF ~crlConfig.present
    THEN [errKind |-> "none",
          value |-> [IssuerIDCRLMap |-> NilMap, CRLNumberMap |-> NilMap]]
    ELSE IF ~crlConfig.doc.valid
    THEN [errKind |-> "InternalError",
          value |-> [IssuerIDCRLMap |-> NilMap, CRLNumberMap |-> NilMap]]
    ELSE [errKind |-> "none", value |-> DecodeCRLConfig(crlConfig.doc)]

\* getLocalCRLConfig: an absent record is the empty struct, and both maps
\* are made non-nil before it is returned
getLocalCRLConfig ==
    IF ~crlConfig.present
    THEN [errKind |-> "none",
          value |-> [IssuerIDCRLMap |-> MakeMap(<<>>),
                     CRLNumberMap |-> MakeMap(<<>>)]]
    ELSE IF ~crlConfig.doc.valid
    THEN [errKind |-> "InternalError",
          value |-> [IssuerIDCRLMap |-> NilMap, CRLNumberMap |-> NilMap]]
    ELSE [errKind |-> "none",
          value |-> [IssuerIDCRLMap |->
                         NonNilMap(DecodeCRLConfig(crlConfig.doc).IssuerIDCRLMap),
                     CRLNumberMap |->
                         NonNilMap(DecodeCRLConfig(crlConfig.doc).CRLNumberMap)]]

\* The configs callers write
KeyConfigs == { [DefaultKeyId |-> id] : id \in {NoId, 1} }

IssuerConfigs == { [DefaultIssuerId |-> id] : id \in {NoId, 1} }

CRLConfigs ==
    { [IssuerIDCRLMap |-> NilMap, CRLNumberMap |-> NilMap],
      [IssuerIDCRLMap |-> MakeMap(<<>>), CRLNumberMap |-> MakeMap(<<>>)],
      [IssuerIDCRLMap |-> MakeMap(<<1>>), CRLNumberMap |-> MakeMap(<<2>>)],
      [IssuerIDCRLMap |-> MakeMap(<<1>>), CRLNumberMap |-> NilMap] }


\* The identifiers of the entries callers write and fetch
RecordIds == {1, 2}

\* The entries callers write
KeyEntries ==
    { [ID |-> id, Name |-> name, PrivateKeyType |-> "rsa",
       PrivateKey |-> <<"K1", "NL">>] :
        id \in RecordIds, name \in {"", "n1"} }

IssuerEntries ==
    { [ID |-> id, Name |-> "n1", KeyID |-> keyId,
       Certificate |-> <<"CA1", "NL">>, CAChain |-> chain,
       ManualChain |-> NilSlice, SerialNumber |-> "65",
       LeafNotAfterBehavior |-> 0] :
        id \in {1}, keyId \in {1},
        chain \in {NilSlice, Slice(<<>>), Slice(<< <<"CA1", "NL">> >>)} }

\* The backing store when the mount is set up: nothing stored, or under
\* identifier 1 an entry that does not decode, or one written without the
\* name tag
AbsentRecord == [present |-> FALSE, doc |-> CorruptDoc]

InitRecords ==
    /\ keys \in { <<>>, <<CorruptDoc>>,
                  <<[valid |-> TRUE,
                     fields |-> [id |-> 1, private_key |-> <<"K1", "NL">>]]>> }
    /\ issuers \in { <<>>, <<CorruptDoc>> }
    /\ keyConfig = AbsentRecord
    /\ issuerConfig = AbsentRecord
    /\ crlConfig = AbsentRecord
    /\ crls = <<>>
    /\ revoked = <<>>
    /\ crlDisable = FALSE
    /\ forceRebuild = 0
    /\ m = 0
    /\ pc = [c \in Callers |-> "idle"]
    /\ call = [c \in Callers |-> NoResult]
    /\ usedIds = [key |-> {}, issuer |-> {}]
    /\ now = TicksPerSecond + 1
    /\ requested = FALSE
    /\ last = [op |-> "none", id |-> NoId, errKind |-> "none", value |-> NilEntry]

otherVars == <<crls, revoked, crlDisable, forceRebuild, m, pc, call, usedIds,
               now, requested>>

RecWriteKey ==
    \E key \in KeyEntries :
        /\ keys' = Put(keys, key.ID, EncodeKeyEntry(key))
        /\ last' = [op |-> "writeKey", id |-> key.ID, errKind |-> "none",
                    value |-> key]
        /\ UNCHANGED <<issuers, keyConfig, issuerConfig, crlConfig, otherVars>>

RecWriteIssuer ==
    \E issuer \in IssuerEntries :
        /\ issuers' = Put(issuers, issuer.ID, EncodeIssuerEntry(issuer))
        /\ last' = [op |-> "writeIssuer", id |-> issuer.ID, errKind |-> "none",
                    value |-> issuer]
        /\ UNCHANGED <<keys, keyConfig, issuerConfig, crlConfig, otherVars>>

RecFetchKey ==
    \E keyId \in RecordIds \cup {NoId} :
        /\ last' = [op |-> "fetchKeyById", id |-> keyId,
                    errKind |-> fetchKeyById(keyId).errKind,
                    value |-> fetchKeyById(keyId).value]
        /\ UNCHANGED <<keys, issuers, keyConfig, issuerConfig, crlConfig, otherVars>>

RecFetchIssuer ==
    \E issuerId \in RecordIds \cup {NoId} :
        /\ last' = [op |-> "fetchIssuerById", id |-> issuerId,
                    errKind |-> fetchIssuerById(issuerId).errKind,
                    value |-> fetchIssuerById(issuerId).value]
        /\ UNCHANGED <<keys, issuers, keyConfig, issuerConfig, crlConfig, otherVars>>

\* deleteKey, deleteIssuer: the default pointer is cleared first when it
\* names the entry, then the entry is deleted
RecDeleteKey ==
    \E id \in RecordIds :
        /\ getKeysConfig.errKind = "none"
        /\ keyConfig' = IF getKeysConfig.value.DefaultKeyId = id
                        THEN [present |-> TRUE,
                              doc |-> EncodeKeyConfig([DefaultKeyId |-> NoId])]
                        ELSE keyConfig
        /\ keys' = Delete(keys, id)
        /\ last' = [op |-> "deleteKey", id |-> id, errKind |-> "none",
                    value |-> NilEntry]
        /\ UNCHANGED <<issuers, issuerConfig, crlConfig, otherVars>>

RecDeleteIssuer ==
    \E id \in RecordIds :
        /\ getIssuersConfig.errKind = "none"
        /\ issuerConfig' = IF getIssuersConfig.value.DefaultIssuerId = id
                           THEN [present |-> TRUE,
                                 doc |-> EncodeIssuerConfig([DefaultIssuerId |-> NoId])]
                           ELSE issuerConfig
        /\ issuers' = Delete(issuers, id)
        /\ last' = [op |-> "deleteIssuer", id |-> id, errKind |-> "none",
                    value |-> NilEntry]
        /\ UNCHANGED <<keys, keyConfig, crlConfig, otherVars>>

RecSetKeysConfig ==
    \E config \in KeyConfigs :
        /\ keyConfig' = [present |-> TRUE, doc |-> EncodeKeyConfig(config)]
        /\ last' = [op |-> "setKeysConfig", id |-> NoId, errKind |-> "none",
                    value |-> config]
        /\ UNCHANGED <<keys, issuers, issuerConfig, crlConfig, otherVars>>

RecGetKeysConfig ==
    /\ last' = [op |-> "getKeysConfig", id |-> NoId,
                errKind |-> getKeysConfig.errKind, value |-> getKeysConfig.value]
    /\ UNCHANGED <<keys, issuers, keyConfig, issuerConfig, crlConfig, otherVars>>

RecSetIssuersConfig ==
    \E config \in IssuerConfigs :
        /\ issuerConfig' = [present |-> TRUE, doc |-> EncodeIssuerConfig(config)]
        /\ last' = [op |-> "setIssuersConfig", id |-> NoId, errKind |-> "none",
                    value |-> config]
        /\ UNCHANGED <<keys, issuers, keyConfig, crlConfig, otherVars>>

RecGetIssuersConfig ==
    /\ last' = [op |-> "getIssuersConfig", id |-> NoId,
                errKind |-> getIssuersConfig.errKind,
                value |-> getIssuersConfig.value]
    /\ UNCHANGED <<keys, issuers, keyConfig, issuerConfig, crlConfig, otherVars>>

RecSetLocalCRLConfig ==
    \E mapping \in CRLConfigs :
        /\ crlConfig' = [present |-> TRUE, doc |-> EncodeCRLConfig(mapping)]
        /\ last' = [op |-> "setLocalCRLConfig", id |-> NoId, errKind |-> "none",
                    value |-> mapping]
        /\ UNCHANGED <<keys, issuers, keyConfig, issuerConfig, otherVars>>

RecGetLocalCRLConfig ==
    /\ last' = [op |-> "getLocalCRLConfig", id |-> NoId,
                errKind |-> getLocalCRLConfig.errKind,
                value |-> getLocalCRLConfig.value]
    /\ UNCHANGED <<keys, issuers, keyConfig, issuerConfig, crlConfig, otherVars>>

\* listKeys, listIssuers
RecListKeys ==
    /\ last' = [op |-> "listKeys", id |-> NoId, errKind |-> "none",
                value |-> listKeys]
    /\ UNCHANGED <<keys, issuers, keyConfig, issuerConfig, crlConfig, otherVars>>

RecListIssuers ==
    /\ last' = [op |-> "listIssuers", id |-> NoId, errKind |-> "none",
                value |-> listIssuers]
    /\ UNCHANGED <<keys, issuers, keyConfig, issuerConfig, crlConfig, otherVars>>

NextRecords ==
    \/ RecWriteKey
    \/ RecWriteIssuer
    \/ RecFetchKey
    \/ RecFetchIssuer
    \/ RecDeleteKey
    \/ RecDeleteIssuer
    \/ RecListKeys
    \/ RecListIssuers
    \/ RecSetKeysConfig
    \/ RecGetKeysConfig
    \/ RecSetIssuersConfig
    \/ RecGetIssuersConfig
    \/ RecSetLocalCRLConfig
    \/ RecGetLocalCRLConfig

SpecRecords == InitRecords /\ [][NextRecords]_vars

\* C24 as stated: a fetch with the empty identifier fails with the
\* not-found, user-attributable error.
C24_EmptyIdIsNotFound ==
    (last.op \in {"fetchKeyById", "fetchIssuerById"} /\ last.id = NoId)
        => last.errKind = "UserError"

\* C24, amended: fetchKeyById and fetchIssuerById fail with an internal error
\* when the identifier is empty, with a not-found, user-attributable error
\* when no entry is stored under it, and with an internal error when the
\* stored record cannot be decoded; otherwise they return the stored entry.
C24_FetchById ==
    /\ last.op = "fetchKeyById" =>
          /\ last.errKind =
                IF last.id = NoId THEN "InternalError"
                ELSE IF last.id \notin DOMAIN keys THEN "UserError"
                ELSE IF ~keys[last.id].valid THEN "InternalError"
                ELSE "none"
          /\ last.errKind = "none" => last.value = DecodeKeyEntry(keys[last.id])
          /\ last.errKind # "none" => last.value = NilEntry
    /\ last.op = "fetchIssuerById" =>
          /\ last.errKind =
                IF last.id = NoId THEN "InternalError"
                ELSE IF last.id \notin DOMAIN issuers THEN "UserError"
                ELSE IF ~issuers[last.id].valid THEN "InternalError"
                ELSE "none"
          /\ last.errKind = "none"
                => last.value = DecodeIssuerEntry(issuers[last.id])
          /\ last.errKind # "none" => last.value = NilEntry

\* A fetch with the empty identifier failed with an internal error while a
\* key was stored
C24_Witness ==
    /\ last.op = "fetchKeyById"
    /\ last.id = NoId
    /\ last.errKind = "InternalError"
    /\ keys # <<>>


\* ---------------------------------------------------------------------------
\* Round trips through the backing store under the calls of SpecRecords
\* ---------------------------------------------------------------------------

\* A read that follows the write of an entry or of a key or issuer config
\* returns the structure written
EntryReadBack ==
    /\ (last.op = "writeKey" /\ last'.op = "fetchKeyById" /\ last'.id = last.id)
         => (last'.errKind = "none" /\ last'.value = last.value)
    /\ (last.op = "writeIssuer" /\ last'.op = "fetchIssuerById"
            /\ last'.id = last.id)
         => (last'.errKind = "none" /\ last'.value = last.value)
    /\ (last.op = "setKeysConfig" /\ last'.op = "getKeysConfig")
         => (last'.errKind = "none" /\ last'.value = last.value)
    /\ (last.op = "setIssuersConfig" /\ last'.op = "getIssuersConfig")
         => (last'.errKind = "none" /\ last'.value = last.value)

\* Reading an absent config returns the zero value, the CRL config with both
\* maps present and empty
AbsentReadsZero ==
    /\ (last.op = "getKeysConfig" /\ ~keyConfig.present)
         => (last.errKind = "none" /\ last.value = [DefaultKeyId |-> NoId])
    /\ (last.op = "getIssuersConfig" /\ ~issuerConfig.present)
         => (last.errKind = "none" /\ last.value = [DefaultIssuerId |-> NoId])
    /\ (last.op = "getLocalCRLConfig" /\ ~crlConfig.present)
         => /\ last.errKind = "none"
            /\ last.value = [IssuerIDCRLMap |-> [nil |-> FALSE, map |-> <<>>],
                             CRLNumberMap |-> [nil |-> FALSE, map |-> <<>>]]

\* A write adds its identifier to the listing, a delete removes it, and a
\* listing returns the identifiers stored, each once
ListingFollowsWrites ==
    /\ last'.op = "writeKey" => DOMAIN keys' = DOMAIN keys \cup {last'.id}
    /\ last'.op = "deleteKey" => DOMAIN keys' = DOMAIN keys \ {last'.id}
    /\ last'.op = "writeIssuer" => DOMAIN issuers' = DOMAIN issuers \cup {last'.id}
    /\ last'.op = "deleteIssuer" => DOMAIN issuers' = DOMAIN issuers \ {last'.id}
    /\ last'.op \notin {"writeKey", "deleteKey"} => DOMAIN keys' = DOMAIN keys
    /\ last'.op \notin {"writeIssuer", "deleteIssuer"}
         => DOMAIN issuers' = DOMAIN issuers
    /\ last'.op = "listKeys"
         => /\ Len(last'.value) = Cardinality(DOMAIN keys)
            /\ {last'.value[i] : i \in 1 .. Len(last'.value)} = DOMAIN keys
    /\ last'.op = "listIssuers"
         => /\ Len(last'.value) = Cardinality(DOMAIN issuers)
            /\ {last'.value[i] : i \in 1 .. Len(last'.value)} = DOMAIN issuers

defaultRef == "default"

\* The conversions keyID(text) and issuerID(text).  Stored identifiers are
\* the positive numbers, written in references by their digits; every other
\* text is the identifier of no stored entry.
keyID(text) ==
    CASE text = "" -> NoId
      [] text = "1" -> 1
      [] text = "2" -> 2
      [] text = "3" -> 3
      [] text = "not-found" -> -1
      [] text = "n1" -> -2
      [] text = "default" -> -3
      [] text = "key-read" -> -4
      [] text = "issuer-read" -> -5
      [] text = "config-error" -> -6

issuerID(text) == keyID(text)

KeyRefNotFound == keyID("not-found")

IssuerRefNotFound == issuerID("not-found")

\* The positions of the listing at which the loop over the names returns:
\* the entry does not decode, or its name is the reference
KeyNameStops(reference) ==
    { i \in 1 .. Len(listKeys) :
        \/ fetchKeyById(listKeys[i]).errKind # "none"
        \/ fetchKeyById(listKeys[i]).value.Name = reference }

IssuerNameStops(reference) ==
    { i \in 1 .. Len(listIssuers) :
        \/ fetchIssuerById(listIssuers[i]).errKind # "none"
        \/ fetchIssuerById(listIssuers[i]).value.Name = reference }

\* The loop over the names
resolveKeyByName(reference) ==
    IF KeyNameStops(reference) = {}
    THEN [errKind |-> "UserError", id |-> KeyRefNotFound]
    ELSE IF fetchKeyById(listKeys[Min(KeyNameStops(reference))]).errKind # "none"
    THEN [errKind |-> fetchKeyById(listKeys[Min(KeyNameStops(reference))]).errKind,
          id |-> keyID("key-read")]
    ELSE [errKind |-> "none",
          id |-> fetchKeyById(listKeys[Min(KeyNameStops(reference))]).value.ID]

resolveIssuerByName(reference) ==
    IF IssuerNameStops(reference) = {}
    THEN [errKind |-> "UserError", id |-> IssuerRefNotFound]
    ELSE IF fetchIssuerById(listIssuers[Min(IssuerNameStops(reference))]).errKind
                # "none"
    THEN [errKind |->
              fetchIssuerById(listIssuers[Min(IssuerNameStops(reference))]).errKind,
          id |-> issuerID("issuer-read")]
    ELSE [errKind |-> "none",
          id |-> fetchIssuerById(
                     listIssuers[Min(IssuerNameStops(reference))]).value.ID]

\* The default reference
resolveKeyDefault ==
    IF getKeysConfig.errKind # "none"
    THEN [errKind |-> getKeysConfig.errKind, id |-> keyID("config-error")]
    ELSE IF getKeysConfig.value.DefaultKeyId = NoId
    THEN [errKind |-> "no default key currently configured",
          id |-> KeyRefNotFound]
    ELSE [errKind |-> "none", id |-> getKeysConfig.value.DefaultKeyId]

resolveIssuerDefault ==
    IF getIssuersConfig.errKind # "none"
    THEN [errKind |-> getIssuersConfig.errKind, id |-> issuerID("config-error")]
    ELSE IF getIssuersConfig.value.DefaultIssuerId = NoId
    THEN [errKind |-> "no default issuer currently configured",
          id |-> IssuerRefNotFound]
    ELSE [errKind |-> "none", id |-> getIssuersConfig.value.DefaultIssuerId]

\* resolveKeyReference with the loop over the names run before the loop over
\* the identifiers
resolveKeyReferenceNamesFirst(reference) ==
    IF reference = defaultRef THEN resolveKeyDefault
    ELSE IF resolveKeyByName(reference).id # KeyRefNotFound
    THEN resolveKeyByName(reference)
    ELSE IF keyID(reference) \in DOMAIN keys
    THEN [errKind |-> "none", id |-> keyID(reference)]
    ELSE resolveKeyByName(reference)

\* resolveKeyReference without the test for the default reference
resolveKeyReferenceNoDefault(reference) ==
    IF keyID(reference) \in DOMAIN keys
    THEN [errKind |-> "none", id |-> keyID(reference)]
    ELSE resolveKeyByName(reference)

resolveKeyReference(reference) ==
    IF reference = defaultRef THEN resolveKeyDefault
    ELSE IF keyID(reference) \in DOMAIN keys
    THEN [errKind |-> "none", id |-> keyID(reference)]
    ELSE resolveKeyByName(reference)

resolveIssuerReference(reference) ==
    IF reference = defaultRef THEN resolveIssuerDefault
    ELSE IF issuerID(reference) \in DOMAIN issuers
    THEN [errKind |-> "none", id |-> issuerID(reference)]
    ELSE resolveIssuerByName(reference)

\* The references callers pass, and the names of the stored entries
References == {"", "1", "2", "n1", "default", "not-found"}

ResolveKeyNames == {"", "n1", "2", "default"}

ResolveIssuerNames == {"1", "default"}

\* The entries stored under an identifier: none, one of each name, for keys
\* also one that does not decode
ResolveKeyDocs(id) ==
    { EncodeKeyEntry([ID |-> id, Name |-> name, PrivateKeyType |-> "rsa",
                      PrivateKey |-> <<"K1", "NL">>]) : name \in ResolveKeyNames }
        \cup {CorruptDoc}

ResolveIssuerDocs(id) ==
    { EncodeIssuerEntry([ID |-> id, Name |-> name, KeyID |-> NoId,
                         Certificate |-> <<"CA1", "NL">>, CAChain |-> NilSlice,
                         ManualChain |-> NilSlice, SerialNumber |-> "01",
                         LeafNotAfterBehavior |-> 0]) :
        name \in ResolveIssuerNames }

InitResolve ==
    /\ \E S \in SUBSET RecordIds :
           keys \in { f \in [S -> UNION { ResolveKeyDocs(id) : id \in S }] :
                        \A id \in S : f[id] \in ResolveKeyDocs(id) }
    /\ \E S \in SUBSET RecordIds :
           issuers \in { f \in [S -> UNION { ResolveIssuerDocs(id) : id \in S }] :
                           \A id \in S : f[id] \in ResolveIssuerDocs(id) }
    /\ keyConfig \in {AbsentRecord}
           \cup { [present |-> TRUE, doc |-> EncodeKeyConfig([DefaultKeyId |-> id])] :
                    id \in {NoId} \cup DOMAIN keys }
    /\ issuerConfig \in {AbsentRecord}
           \cup { [present |-> TRUE,
                   doc |-> EncodeIssuerConfig([DefaultIssuerId |-> id])] :
                    id \in {NoId} \cup DOMAIN issuers }
    /\ crlConfig = AbsentRecord
    /\ crls = <<>>
    /\ revoked = <<>>
    /\ crlDisable = FALSE
    /\ forceRebuild = 0
    /\ m = 0
    /\ pc = [c \in Callers |-> "idle"]
    /\ call = [c \in Callers |-> NoResult]
    /\ usedIds = [key |-> {}, issuer |-> {}]
    /\ now = TicksPerSecond + 1
    /\ requested = FALSE
    /\ last = [op |-> "none", id |-> NoId, errKind |-> "none", value |-> ""]

ResolveKey ==
    \E reference \in References :
        /\ last' = [op |-> "resolveKeyReference",
                    id |-> resolveKeyReference(reference).id,
                    errKind |-> resolveKeyReference(reference).errKind,
                    value |-> reference]
        /\ UNCHANGED <<keys, issuers, keyConfig, issuerConfig, crlConfig, otherVars>>

ResolveIssuer ==
    \E reference \in References :
        /\ last' = [op |-> "resolveIssuerReference",
                    id |-> resolveIssuerReference(reference).id,
                    errKind |-> resolveIssuerReference(reference).errKind,
                    value |-> reference]
        /\ UNCHANGED <<keys, issuers, keyConfig, issuerConfig, crlConfig, otherVars>>

NextResolve == ResolveKey \/ ResolveIssuer

SpecResolve == InitResolve /\ [][NextResolve]_vars

\* The stored entries that decode and are named by the reference
KeysNamed(reference) ==
    { k \in DOMAIN keys : keys[k].valid /\ keys[k].fields.name = reference }

IssuersNamed(reference) ==
    { i \in DOMAIN issuers :
        issuers[i].valid /\ issuers[i].fields.name = reference }

\* C25: with a reference other than "default", resolveKeyReference and
\* resolveIssuerReference return the entry whose identifier is the reference
\* when there is one, even when another entry carries the reference as its
\* name; only when no identifier matches, the first entry in listing order
\* whose name is the reference; and the not-found sentinel with a user error
\* when neither matches (every stored entry being decodable).
C25_IdentifierBeforeName ==
    /\ (last.op = "resolveKeyReference" /\ last.value # "default") =>
          /\ keyID(last.value) \in DOMAIN keys
                => (last.errKind = "none" /\ last.id = keyID(last.value))
          /\ (keyID(last.value) \notin DOMAIN keys
                /\ \A k \in DOMAIN keys : keys[k].valid) =>
                IF KeysNamed(last.value) # {}
                THEN /\ last.errKind = "none"
                     /\ last.id \in KeysNamed(last.value)
                     /\ \A k \in KeysNamed(last.value) : last.id <= k
                ELSE last.errKind = "UserError" /\ last.id = -1
    /\ (last.op = "resolveIssuerReference" /\ last.value # "default") =>
          /\ issuerID(last.value) \in DOMAIN issuers
                => (last.errKind = "none" /\ last.id = issuerID(last.value))
          /\ issuerID(last.value) \notin DOMAIN issuers =>
                IF IssuersNamed(last.value) # {}
                THEN /\ last.errKind = "none"
                     /\ last.id \in IssuersNamed(last.value)
                     /\ \A i \in IssuersNamed(last.value) : last.id <= i
                ELSE last.errKind = "UserError" /\ last.id = -1

\* The reference "2" resolved to key 2 although key 1 is named "2"
C25_Witness ==
    /\ last.op = "resolveKeyReference"
    /\ last.value = "2"
    /\ last.id = 2
    /\ 1 \in DOMAIN keys
    /\ keys[1].valid
    /\ keys[1].fields.name = "2"

\* C26: with the reference "default", resolveKeyReference and
\* resolveIssuerReference return the identifier held in the config when one
\* is set, and the not-found sentinel with a "no default configured" error
\* when none is set; entries that carry "default" as their name are never
\* looked at.
C26_DefaultFromConfigOnly ==
    /\ (last.op = "resolveKeyReference" /\ last.value = "default") =>
          IF keyConfig.present /\ keyConfig.doc.fields.default # NoId
          THEN last.errKind = "none" /\ last.id = keyConfig.doc.fields.default
          ELSE /\ last.errKind = "no default key currently configured"
               /\ last.id = -1
    /\ (last.op = "resolveIssuerReference" /\ last.value = "default") =>
          IF issuerConfig.present /\ issuerConfig.doc.fields.default # NoId
          THEN last.errKind = "none" /\ last.id = issuerConfig.doc.fields.default
          ELSE /\ last.errKind = "no default issuer currently configured"
               /\ last.id = -1

\* "default" failed to resolve while a key named "default" was stored
C26_Witness ==
    /\ last.op = "resolveKeyReference"
    /\ last.value = "default"
    /\ last.id = -1
    /\ KeysNamed("default") # {}


\* ---------------------------------------------------------------------------
\* buildCRLs on a crls/config that maps one group's members apart
\* ---------------------------------------------------------------------------

\* The mappings crls/config may hold for the two issuers of a mount: none,
\* both on one CRL, each on a CRL of its own
StoredMappings == { <<>>, <<1, 1>>, <<1, 2>>, <<2, 1>> }

\* A root and its reissue on one key, with a crls/config that holds one of
\* the mappings and, for each CRL it names, a first CRL already written
InitConflict ==
    /\ Provisioned([keys |-> <<"K1">>, certs |-> <<"CA1", "CA1b">>])
    /\ \E mapping \in StoredMappings :
          /\ crlConfig = [IssuerIDCRLMap |-> mapping,
                          CRLNumberMap |-> [c \in Range(mapping) |-> 2]]
          /\ crls = [c \in Range(mapping) |->
                        [Number |-> 1, RevokedCertificates |-> <<>>,
                         Issuer |-> CertInfo("CA1").RawSubject]]
    /\ revoked = <<>>
    /\ crlDisable \in BOOLEAN
    /\ forceRebuild = 0
    /\ m = 0
    /\ pc = [c \in Callers |-> "idle"]
    /\ call = [c \in Callers |-> NoResult]
    /\ now = TicksPerSecond + 1
    /\ requested = FALSE
    /\ last = NoResult

NextConflict ==
    \/ DeleteIssuer
    \/ RevokeCert
    \/ Rebuild

SpecConflict == InitConflict /\ [][NextConflict]_vars

\* The issuers of a group some two of whose members crls/config maps to
\* different CRL identifiers
Conflicting ==
    { i \in SigningIssuers :
        \E j, k \in SigningIssuers :
            /\ GroupOf(j) = GroupOf(i)
            /\ GroupOf(k) = GroupOf(i)
            /\ CRLOf(j) # NoId
            /\ CRLOf(k) # NoId
            /\ CRLOf(j) # CRLOf(k) }

\* C28: when two members of one (key, subject) group are mapped to different
\* CRL identifiers, buildCRLs returns an error, leaves crls/config as it was
\* (no mapping, no number changes) and writes no CRL document for that group.
C28_ConflictHalts ==
    [][(/\ last'.op \in {"rebuild", "revokeCert"}
        /\ last'.built
        /\ Conflicting # {})
       => /\ last'.err
          /\ crlConfig' = crlConfig
          /\ \A i \in Conflicting :
                /\ CRLOf(i) \notin last'.wrote
                /\ CRLOf(i) # NoId => crls'[CRLOf(i)] = crls[CRLOf(i)]
          /\ last'.wrote = {}
          /\ DOMAIN crls' = DOMAIN crls]_vars

\* A rebuild failed on a root and its reissue mapped to two CRLs, whose
\* documents still carry their first numbers
C28_Witness ==
    /\ last.op = "rebuild"
    /\ last.built
    /\ last.err
    /\ Conflicting = {1, 2}
    /\ crlConfig.CRLNumberMap = <<2, 2>>
    /\ \A c \in DOMAIN crls : crls[c].Number = 1


\* ---------------------------------------------------------------------------
\* The mappings buildCRLs leaves, on mounts with and without unlinked issuers
\* ---------------------------------------------------------------------------

\* Storage after importing key K1, its root CA1 and the root CA2, whose key
\* was not imported: issuer 2 has no linked key
ProvisionedUnlinked ==
    /\ keys = <<[ID |-> 1, Name |-> "n1", PrivateKey |-> <<"K1", "NL">>]>>
    /\ issuers = <<[ID |-> 1, Name |-> "n1", KeyID |-> 1,
                    Certificate |-> <<"CA1", "NL">>],
                   [ID |-> 2, Name |-> "n1", KeyID |-> NoId,
                    Certificate |-> <<"CA2", "NL">>]>>
    /\ keyConfig = [DefaultKeyId |-> 1]
    /\ issuerConfig = [DefaultIssuerId |-> 1]
    /\ usedIds = [key |-> {1}, issuer |-> {1, 2}]

InitMap ==
    /\ \/ \E mount \in Mounts : Provisioned(mount)
       \/ ProvisionedUnlinked
    /\ crlConfig = [IssuerIDCRLMap |-> <<>>, CRLNumberMap |-> <<>>]
    /\ crls = <<>>
    /\ revoked = <<>>
    /\ crlDisable \in BOOLEAN
    /\ forceRebuild = 0
    /\ m = 0
    /\ pc = [c \in Callers |-> "idle"]
    /\ call = [c \in Callers |-> NoResult]
    /\ now = TicksPerSecond + 1
    /\ requested = FALSE
    /\ last = NoResult

\* The key of the unlinked root is imported later
ImportSecondKey ==
    /\ importKey(<<"K2", "SP">>, "n2")
    /\ UNCHANGED <<issuerConfig, crlVars, builderVars>>

\* revokeCert within the tick of the call before
RevokeCertNow ==
    \E serial \in RevokeSerials :
        /\ now' = now
        /\ revokeCert(serial, FALSE, FALSE, now)
        /\ UNCHANGED <<storeVars, lockVars, crlDisable>>

NextMap ==
    \/ DeleteKey
    \/ DeleteIssuer
    \/ RevokeCertNow
    \/ Rebuild
    \/ ImportSecondKey

SpecMap == InitMap /\ [][NextMap]_vars

\* The step is a call that ran buildCRLs to its end
BuiltOk == last'.op \in {"rebuild", "revokeCert"} /\ last'.built /\ ~last'.err

\* The issuers with a linked key none of whose group was mapped before the
\* step
NewlyGrouped ==
    { i \in SigningIssuers :
        \A j \in SigningIssuers : GroupOf(j) = GroupOf(i) => CRLOf(j) = NoId }

\* Every issuer with a linked key is mapped, the members of a group alike
AllMapped ==
    \A i \in SigningIssuers :
        /\ MapGet(crlConfig'.IssuerIDCRLMap, i) # NoId
        /\ \A j \in SigningIssuers :
              GroupOf(j) = GroupOf(i)
                => MapGet(crlConfig'.IssuerIDCRLMap, j)
                     = MapGet(crlConfig'.IssuerIDCRLMap, i)

\* Issuers with no linked key are skipped: their mapping is not touched, and
\* only the CRLs of issuers with a key are written
UnlinkedSkipped ==
    /\ \A i \in DOMAIN issuers \ SigningIssuers :
          /\ MapGet(crlConfig'.IssuerIDCRLMap, i) = CRLOf(i)
          /\ CRLOf(i) = NoId
    /\ last'.wrote \subseteq
          { MapGet(crlConfig'.IssuerIDCRLMap, i) : i \in SigningIssuers }

\* C29 as stated: a group none of whose members was mapped before gets a
\* freshly minted identifier whose first CRL carries Number 1: a CRL written
\* under an identifier that had no CRL before carries Number 1.
C29_FirstCRLNumberOne ==
    [][BuiltOk => \A id \in last'.wrote \ DOMAIN crls : crls'[id].Number = 1]_vars

\* C29, amended: after a successful buildCRLs every stored issuer with a
\* linked key is mapped to its group's CRL identifier; a group none of whose
\* members was mapped before gets a freshly minted identifier, whose number 1
\* is used up by this pass: the CRL carries Number 1 if the pass writes it,
\* and when the CRL is disabled and the pass is not forced no CRL is written
\* and the first CRL written later carries a larger Number.  Issuers with no
\* linked key are skipped, produce no CRL and receive no mapping.
C29_MappingAfterBuild ==
    [][BuiltOk =>
         /\ AllMapped
         /\ UnlinkedSkipped
         /\ \A i \in NewlyGrouped :
               \E id \in {MapGet(crlConfig'.IssuerIDCRLMap, i)} :
                  /\ id \notin DOMAIN crlConfig.CRLNumberMap
                  /\ id \notin Range(crlConfig.IssuerIDCRLMap)
                  /\ crlConfig'.CRLNumberMap[id] = 2
                  /\ id \in last'.wrote <=> (~crlDisable \/ last'.force)
                  /\ id \in last'.wrote => crls'[id].Number = 1]_vars

\* A first rebuild on the mount with an unlinked root mapped issuer 1 to a
\* new CRL with Number 1 and left issuer 2 without a mapping
C29_Witness ==
    /\ last.op = "rebuild"
    /\ last.built
    /\ ~last.err
    /\ 2 \in DOMAIN issuers
    /\ issuers[2].KeyID = NoId
    /\ CRLOf(1) # NoId
    /\ CRLOf(2) = NoId
    /\ CRLOf(1) \in last.wrote
    /\ CRLOf(1) \notin DOMAIN last.prev
    /\ crls[CRLOf(1)].Number = 1


\* ---------------------------------------------------------------------------
\* getRevokedCertEntries on its own
\* ---------------------------------------------------------------------------

\* The records revoked/ may hold when the function is called: of each of the
\* two leaves none or one, attributed to no issuer or to either identifier
StoredRecords(serial) ==
    { [CertificateBytes |-> serial,
       RevocationTime |-> ToUnix(TicksPerSecond + 1),
       RevocationTimeUTC |-> TicksPerSecond + 1,
       CertificateIssuer |-> i] : i \in {NoId, 1, 2} }

InitAttr ==
    /\ \E mount \in Mounts : Provisioned(mount)
    /\ \E S \in SUBSET RevokeSerials :
          revoked \in { f \in [S -> UNION { StoredRecords(x) : x \in S }] :
                          \A x \in S : f[x] \in StoredRecords(x) }
    /\ crlConfig = [IssuerIDCRLMap |-> <<>>, CRLNumberMap |-> <<>>]
    /\ crls = <<>>
    /\ crlDisable = FALSE
    /\ forceRebuild = 0
    /\ m = 0
    /\ pc = [c \in Callers |-> "idle"]
    /\ call = [c \in Callers |-> NoResult]
    /\ now = TicksPerSecond + 1
    /\ requested = FALSE
    /\ last = NoResult

\* getRevokedCertEntries(issuerIDCertMap) with the issuers buildCRLs passes:
\* the buckets it returns, by issuer (NoId: unassignedCerts), and the records
\* as it leaves them
GetRevokedCertEntries ==
    \E a \in Attributions(revoked) :
        /\ revoked' = UpdateRevoked(revoked, a)
        /\ last' = [op |-> "getRevokedCertEntries",
                    buckets |-> [i \in SigningIssuers \cup {NoId} |->
                                    RevokedCertsOf(revoked, a, i)]]
        /\ UNCHANGED <<storeVars, lockVars, crlConfig, crls, crlDisable,
                       forceRebuild, requested, now>>

NextAttr ==
    \/ GetRevokedCertEntries
    \/ DeleteIssuer
    \/ RevokeCertNow

SpecAttr == InitAttr /\ [][NextAttr]_vars

\* The places of the buckets at which a record's certificate is listed
PlacesOf(buckets, serial) ==
    { p \in UNION { {<<i, n>> : n \in 1 .. Len(buckets[i])} : i \in DOMAIN buckets } :
        buckets[p[1]][p[2]].SerialNumber = LeafInfo(serial).SerialNumber }

\* The issuer is a parent of the record's certificate: its subject is the
\* certificate's issuer name and its key verifies the signature
IsParent(serial, i) ==
    /\ LeafInfo(revoked[serial].CertificateBytes).RawIssuer
          = IssuerCert(i).RawSubject
    /\ IssuerCert(i).IsCA
    /\ LeafInfo(revoked[serial].CertificateBytes).SignedBy
          = IssuerCert(i).PublicKey

\* C30: getRevokedCertEntries places each revocation record in exactly one
\* bucket: that of its cached issuer when the issuer is among the current
\* signing issuers, without a signature check; otherwise that of an issuer
\* whose subject is the certificate's issuer name and whose key verifies its
\* signature, the attribution being written back with the other fields of
\* the record unchanged; otherwise the unassigned bucket, the stored record
\* unchanged.
C30_OneBucketPerRecord ==
    [][last'.op = "getRevokedCertEntries" =>
         /\ DOMAIN revoked' = DOMAIN revoked
         /\ \A serial \in DOMAIN revoked :
               \E places \in {PlacesOf(last'.buckets, serial)} :
                  /\ Cardinality(places) = 1
                  /\ \E i \in {(CHOOSE p \in places : TRUE)[1]} :
                        IF /\ revoked[serial].CertificateIssuer # NoId
                           /\ revoked[serial].CertificateIssuer \in DOMAIN issuers
                           /\ issuers[revoked[serial].CertificateIssuer].KeyID
                                 # NoId
                        THEN /\ i = revoked[serial].CertificateIssuer
                             /\ revoked'[serial] = revoked[serial]
                        ELSE IF \E j \in SigningIssuers : IsParent(serial, j)
                        THEN /\ i \in SigningIssuers
                             /\ IsParent(serial, i)
                             /\ revoked'[serial] =
                                   [revoked[serial] EXCEPT !.CertificateIssuer = i]
                        ELSE /\ i = NoId
                             /\ revoked'[serial] = revoked[serial]]_vars

\* The record of leaf 1, attributed to the root CA2 that did not sign it, was
\* counted in that issuer's bucket and in no other
C30_Witness ==
    /\ last.op = "getRevokedCertEntries"
    /\ 1 \in DOMAIN revoked
    /\ revoked[1].CertificateIssuer = 2
    /\ 2 \in SigningIssuers
    /\ IssuerCert(2).RawSubject # LeafInfo(1).RawIssuer
    /\ Len(last.buckets[2]) > 0
    /\ last.buckets[2][1].SerialNumber = 1
    /\ last.buckets[NoId] = <<>>


\* ---------------------------------------------------------------------------
\* buildCRLs when a storage write fails
\* ---------------------------------------------------------------------------

\* A faulty variant that persists crls/config although the write failed
buildCRLsPutFailsPersists(forceNew, rev, order, a, failAt) ==
    LET start == [cfg |-> crlConfig, crls |-> crls, wrote |-> {},
                  err |-> FALSE, capped |-> FALSE]
    IN  The({[crlConfig |-> before.cfg,
              crls |-> before.crls,
              revoked |-> UpdateRevoked(rev, a),
              wrote |-> before.wrote,
              err |-> TRUE,
              capped |-> before.capped] :
                before \in {BuildGroups(SubSeq(order, 1, failAt - 1), start,
                                        forceNew, rev, a)}})

\* buildCRLs when the failAt-th storage write of the pass fails: the Put of
\* the CRL of the failAt-th group that is written, or, past the last group,
\* the Put of crls/config.  The groups before it are built as ever; the call
\* returns the error, and crls/config is not written.
buildCRLsPutFails(forceNew, rev, order, a, failAt) ==
    LET start == [cfg |-> crlConfig, crls |-> crls, wrote |-> {},
                  err |-> FALSE, capped |-> FALSE]
    IN  The({[crlConfig |-> crlConfig,
              crls |-> before.crls,
              revoked |-> UpdateRevoked(rev, a),
              wrote |-> before.wrote,
              err |-> TRUE,
              capped |-> before.capped] :
                before \in {BuildGroups(SubSeq(order, 1, failAt - 1), start,
                                        forceNew, rev, a)}})

\* rebuild(forceNew) whose pass meets a failing storage write.  A pass that
\* writes no CRL (the CRL disabled, the pass not forced) can only fail at
\* crls/config.
RebuildPutFails ==
    \E forceNew \in BOOLEAN, order \in GroupOrders, a \in Attributions(revoked) :
        \E failAt \in IF crlDisable /\ ~MyForceNew(forceNew)
                      THEN {Len(order) + 1} ELSE 1 .. Len(order) + 1 :
            \E R \in {buildCRLsPutFails(MyForceNew(forceNew), revoked, order, a,
                                        failAt)} :
                /\ ~R.capped
                /\ forceRebuild' = 0
                /\ requested' = FALSE
                /\ crlConfig' = R.crlConfig
                /\ crls' = R.crls
                /\ revoked' = R.revoked
                /\ last' = [NoResult EXCEPT !.op = "rebuild", !.arg = "put fails",
                               !.forceNew = forceNew, !.before = forceRebuild,
                               !.locked = TRUE, !.req = requested,
                               !.built = TRUE, !.force = MyForceNew(forceNew),
                               !.alone = TRUE, !.err = TRUE,
                               !.wrote = R.wrote, !.prev = crls]
                /\ UNCHANGED <<storeVars, lockVars, crlDisable, now>>

NextPutFault ==
    \/ DeleteIssuer
    \/ RevokeCertNow
    \/ Rebuild
    \/ RebuildPutFails

SpecPutFault == InitCRL /\ [][NextPutFault]_vars

\* The records a group's CRL is to list: those attributed to a member, and
\* the unattributable ones when the default issuer is a member
GroupRevokedSet(i) ==
    { serial \in DOMAIN revoked :
        \/ /\ revoked[serial].CertificateIssuer \in SigningIssuers
           /\ GroupOf(revoked[serial].CertificateIssuer) = GroupOf(i)
        \/ /\ serial \in Unattributable
           /\ issuerConfig.DefaultIssuerId \in SigningIssuers
           /\ GroupOf(issuerConfig.DefaultIssuerId) = GroupOf(i) }

\* Every group's CRL document is stored, lists the group's revoked set and
\* carries a Number below the persisted next number of its identifier
GroupsUpToDate ==
    \A i \in SigningIssuers :
        /\ CRLOf(i) \in DOMAIN crls
        /\ Listed(CRLOf(i)) = GroupRevokedSet(i)
        /\ CRLOf(i) \in DOMAIN crlConfig.CRLNumberMap
        /\ crls[CRLOf(i)].Number < crlConfig.CRLNumberMap[CRLOf(i)]

\* A pass that met a failing write returned an error, did not write
\* crls/config, and the CRLs it wrote before the failure are in storage,
\* all other CRLs as they were
FailedWriteKeepsEarlier ==
    (last'.op = "rebuild" /\ last'.arg = "put fails") =>
        /\ last'.err
        /\ crlConfig' = crlConfig
        /\ last'.wrote \subseteq DOMAIN crls'
        /\ \A id \in DOMAIN crls \ last'.wrote :
              id \in DOMAIN crls' /\ crls'[id] = crls[id]
        /\ DOMAIN crls' = DOMAIN crls \cup last'.wrote
        /\ Cardinality(last'.wrote) <= Cardinality(Groups)

InitLink ==
    /\ keys = <<>>
    /\ keyConfig = [DefaultKeyId |-> NoId]
    /\ issuerConfig = [DefaultIssuerId |-> 1]
    /\ \/ /\ issuers = <<[ID |-> 1, Name |-> "n1", KeyID |-> NoId,
                          Certificate |-> <<"CA1", "NL">>],
                         [ID |-> 2, Name |-> "n1", KeyID |-> NoId,
                          Certificate |-> <<"CA1x", "NL">>]>>
          /\ usedIds = [key |-> {}, issuer |-> {1, 2}]
       \/ /\ issuers = <<[ID |-> 1, Name |-> "n1", KeyID |-> NoId,
                          Certificate |-> <<"CA1", "NL">>],
                         [ID |-> 2, Name |-> "n1", KeyID |-> NoId,
                          Certificate |-> <<"CA2", "NL">>]>>
          /\ usedIds = [key |-> {}, issuer |-> {1, 2}]
       \/ /\ issuers = <<[ID |-> 1, Name |-> "n1", KeyID |-> 1,
                          Certificate |-> <<"CA1", "NL">>],
                         [ID |-> 2, Name |-> "n1", KeyID |-> NoId,
                          Certificate |-> <<"CA1x", "NL">>]>>
          /\ usedIds = [key |-> {1}, issuer |-> {1, 2}]
    /\ crlConfig = [IssuerIDCRLMap |-> <<>>, CRLNumberMap |-> <<>>]
    /\ crls = <<>>
    /\ revoked = <<>>
    /\ crlDisable = FALSE
    /\ forceRebuild = 0
    /\ m = 0
    /\ pc = [c \in Callers |-> "idle"]
    /\ call = [c \in Callers |-> NoResult]
    /\ now = TicksPerSecond + 1
    /\ requested = FALSE
    /\ last = NoResult

SpecLink == InitLink /\ [][NextStore]_vars

\* C32: an importKey that creates a new key sets KeyID to the new key's
\* identifier on every issuer listed before the import whose KeyID is empty
\* and whose certificate carries the key's public key, all of them and not
\* only the first, and leaves every other issuer entry and every other key
\* entry unchanged.
C32_ImportKeyLinksAll ==
    [][(/\ last'.op = "importKey"
        /\ ~last'.err
        /\ last'.id \notin DOMAIN keys)
       => /\ last'.id \in DOMAIN keys'
          /\ DOMAIN keys' = DOMAIN keys \cup {last'.id}
          /\ \A k \in DOMAIN keys : keys'[k] = keys[k]
          /\ DOMAIN issuers' = DOMAIN issuers
          /\ \A i \in DOMAIN issuers :
                issuers'[i] =
                    IF /\ issuers[i].KeyID = NoId
                       /\ GetCertificate(issuers[i].Certificate).cert.PublicKey
                             = GetSigner(keys'[last'.id].PrivateKey)
                    THEN [issuers[i] EXCEPT !.KeyID = last'.id]
                    ELSE issuers[i]]_vars

\* The import of K1 linked both the root and its cross-signed twin
C32_Witness ==
    /\ last.op = "importKey"
    /\ ~last.err
    /\ ~last.existed
    /\ last.id \in DOMAIN keys
    /\ {1, 2} \subseteq DOMAIN issuers
    /\ issuers[1].KeyID = last.id
    /\ issuers[2].KeyID = last.id
    /\ usedIds.key = {last.id}


\* ---------------------------------------------------------------------------
\* The crlBuilder under concurrent callers when buildCRLs can fail
\* ---------------------------------------------------------------------------

\* A mount with one root whose key is stored, or was deleted after the
\* import: every build of the latter fails in buildCRL
InitBuilderErr ==
    /\ Provisioned([keys |-> <<"K1">>, certs |-> <<"CA1">>])
          \/ /\ keys = <<>>
             /\ issuers = <<[ID |-> 1, Name |-> "n1", KeyID |-> 1,
                             Certificate |-> <<"CA1", "NL">>]>>
             /\ keyConfig = [DefaultKeyId |-> NoId]
             /\ issuerConfig = [DefaultIssuerId |-> 1]
             /\ usedIds = [key |-> {1}, issuer |-> {1}]
    /\ crlConfig = [IssuerIDCRLMap |-> <<>>, CRLNumberMap |-> <<>>]
    /\ crls = <<>>
    /\ revoked = <<>>
    /\ crlDisable = FALSE
    /\ forceRebuild = 0
    /\ m = 0
    /\ pc = [c \in Callers |-> "idle"]
    /\ call = [c \in Callers |-> NoResult]
    /\ now = TicksPerSecond + 1
    /\ requested = FALSE
    /\ last = NoResult

SpecBuilderErr == InitBuilderErr /\ [][NextBuilder]_vars

\* C33: the pending flag is cleared even when buildCRLs returns an error:
\* after a failed rebuild or a failed rebuildIfForced the builder is idle,
\* and a later rebuildIfForced executes no build until a new rebuild request
\* is made.
C33_FlagClearedOnError ==
    /\ []((last.op \in {"rebuild", "rebuildIfForced"} /\ last.built /\ last.err)
            => last.after = 0)
    /\ [](last.op = "rebuildIfForced" /\ last.before = 0 => ~last.built)
    /\ [][/\ \A c \in Callers :
                (pc[c] = "clear" /\ pc'[c] # "clear" /\ call[c].err)
                    => forceRebuild' = 0
          /\ (forceRebuild = 0 /\ forceRebuild' = 1)
                => \E c \in Callers :
                      /\ pc[c] = "store"
                      /\ call[c].op = "requestRebuildIfActiveNode"]_vars

\* A rebuildIfForced that met a pending request failed in buildCRLs, and the
\* builder is idle
C33_Witness ==
    /\ last.op = "rebuildIfForced"
    /\ last.before = 1
    /\ last.built
    /\ last.err
    /\ last.after = 0
    /\ forceRebuild = 0
    /\ \A c \in Callers : pc[c] = "idle"

\* C34: of several rebuildIfForced calls that have passed the lock-free
\* check on one pending request, the one that takes the mutex while the flag
\* is set executes buildCRLs and clears the flag; each of the others finds
\* the flag cleared under the mutex and returns without building, unless a
\* new request has set it again.
C34_OneBuildPerRequest ==
    /\ [](\A c \in Callers :
            (call[c].op = "rebuildIfForced" /\ pc[c] \in {"build", "clear"})
                => (forceRebuild = 1 /\ m = c))
    /\ [](last.op = "rebuildIfForced" /\ last.built => last.req)
    /\ [][\A c \in Callers :
            /\ (pc[c] = "check" /\ pc'[c] # "check"
                    /\ call[c].op = "rebuildIfForced")
                 => /\ pc'[c] = IF forceRebuild = 1 THEN "build" ELSE "unlock"
                    /\ forceRebuild = 1 <=> requested
            /\ (pc[c] = "clear" /\ pc'[c] # "clear")
                 => (forceRebuild' = 0 /\ ~requested')
            /\ (pc[c] = "unlock" /\ pc'[c] = "idle"
                    /\ call[c].op = "rebuildIfForced" /\ ~call[c].req)
                 => (~last'.built /\ last'.wrote = {} /\ crls' = crls)]_vars

\* A rebuildIfForced that had seen the flag set took the mutex after another
\* caller's build and returned without building
C34_Witness ==
    /\ last.op = "rebuildIfForced"
    /\ last.before = 1
    /\ last.locked
    /\ ~last.alone
    /\ ~last.built
    /\ ~last.req
    /\ last.wrote = {}
    /\ forceRebuild = 0

\* C35: a requestRebuildIfActiveNode issued on an active node while a build
\* is in progress sets the flag only once it holds the mutex, after the
\* running build has cleared the flag; no build clears a completed request
\* it did not see, so the builder is force-pending once the calls have
\* finished and the next rebuildIfForced executes a build.
C35_RequestNotLost ==
    /\ [](\A c \in Callers :
            pc[c] = "store"
                => /\ m = c
                   /\ \A d \in Callers \ {c} :
                         pc[d] \notin {"check", "build", "clear", "store", "unlock"})
    /\ [](requested => forceRebuild = 1)
    /\ []((last.op = "requestRebuildIfActiveNode" /\ last.locked)
            => last.after = 1)
    /\ [][/\ \A c \in Callers :
                (pc[c] = "unlock" /\ pc'[c] = "idle"
                    /\ call[c].op = "requestRebuildIfActiveNode")
                    => (forceRebuild' = 1 /\ requested')
          /\ \A c \in Callers :
                (pc[c] = "idle" /\ pc'[c] # "idle" /\ requested
                    /\ call'[c].op = "rebuildIfForced")
                    => pc'[c] = "lock"]_vars

\* A request that entered while the flag was set holds the mutex after a
\* build has cleared the flag, and has set it again
C35_Witness ==
    \E c \in Callers :
        /\ pc[c] = "unlock"
        /\ call[c].op = "requestRebuildIfActiveNode"
        /\ call[c].before = 1
        /\ ~call[c].alone
        /\ ~requested
        /\ forceRebuild = 1
        /\ m = c


\* ---------------------------------------------------------------------------
\* Issuers whose key was deleted
\* ---------------------------------------------------------------------------

\* The key material of a mount is imported again
ReimportKey ==
    \E keyValue \in { <<"K1", "NL">>, <<"K2", "NL">> } :
        /\ importKey(keyValue, "n1")
        /\ UNCHANGED <<issuerConfig, crlVars, builderVars>>

NextRelink ==
    \/ DeleteKey
    \/ ReimportKey
    \/ RevokeCertNow
    \/ Rebuild

SpecRelink == InitCRL /\ [][NextRelink]_vars

\* The issuers whose KeyID names a key that is not stored
Dangling ==
    { i \in DOMAIN issuers :
        issuers[i].KeyID # NoId /\ issuers[i].KeyID \notin DOMAIN keys }

NextBuilderDelete ==
    \/ \E c \in Callers :
          \/ CallRebuild(c)
          \/ Lock(c)
          \/ Check(c)
          \/ Build(c)
          \/ ClearForce(c)
          \/ Unlock(c)
    \/ DeleteIssuer
    \/ ImportSecondKey

\* The mounts of InitMap with the CRL enabled
InitBuilderDelete == InitMap /\ ~crlDisable

SpecBuilderDelete == InitBuilderDelete /\ [][NextBuilderDelete]_vars


\* C37: across any sequence and interleaving of rebuild calls, a persisted
\* IssuerIDCRLMap entry is never removed and never changed to a different
\* CRL identifier, also after the issuer is deleted; every CRL identifier in
\* the map has an entry in CRLNumberMap; and no persisted CRLNumberMap value
\* ever decreases.
C37_MapOnlyGrows ==
    /\ [](\A i \in DOMAIN crlConfig.IssuerIDCRLMap :
            crlConfig.IssuerIDCRLMap[i] \in DOMAIN crlConfig.CRLNumberMap)
    /\ [][\/ crlConfig' = crlConfig
          \/ /\ \A i \in DOMAIN crlConfig.IssuerIDCRLMap :
                   /\ i \in DOMAIN crlConfig'.IssuerIDCRLMap
                   /\ crlConfig'.IssuerIDCRLMap[i] = crlConfig.IssuerIDCRLMap[i]
             /\ \A id \in DOMAIN crlConfig.CRLNumberMap :
                   /\ id \in DOMAIN crlConfig'.CRLNumberMap
                   /\ crlConfig'.CRLNumberMap[id] >= crlConfig.CRLNumberMap[id]]_vars

\* A rebuild that ran beside another caller has returned; config/crl maps an
\* issuer that was deleted since, and a stored issuer whose key was imported
\* after the first build, and a number has been raised more than once
C37_Witness ==
    /\ last.op = "rebuild"
    /\ last.built
    /\ ~last.err
    /\ ~last.alone
    /\ \E i \in DOMAIN crlConfig.IssuerIDCRLMap : i \notin DOMAIN issuers
    /\ \E id \in DOMAIN crlConfig.CRLNumberMap : crlConfig.CRLNumberMap[id] > 2


\* ---------------------------------------------------------------------------
\* The CRL documents of one pass
\* ---------------------------------------------------------------------------

\* Where a serial stands in the documents the last pass wrote: document and
\* position
PlacesWritten(serial) ==
    {p \in last.wrote \X (1 .. Cardinality(DOMAIN revoked)) :
        /\ p[1] \in DOMAIN crls
        /\ p[2] <= Len(crls[p[1]].RevokedCertificates)
        /\ crls[p[1]].RevokedCertificates[p[2]].SerialNumber = serial}

\* C38: among the CRL documents written by one successful buildCRLs, the
\* serial of each revocation record appears in at most one document and at
\* most once within it; with the CRL enabled, a record attributed to an
\* issuer with a linked key appears in exactly the document of that issuer's
\* group.
C38_OneDocumentPerRecord ==
    (Built /\ ~last.err) =>
        /\ \A id \in last.wrote :
              /\ id \in DOMAIN crls
              /\ Len(crls[id].RevokedCertificates) <= Cardinality(DOMAIN revoked)
        /\ \A serial \in DOMAIN revoked :
              /\ Cardinality(PlacesWritten(serial)) <= 1
              /\ (~crlDisable /\ revoked[serial].CertificateIssuer \in SigningIssuers)
                    => \E p \in PlacesWritten(serial) :
                          p[1] = CRLOf(revoked[serial].CertificateIssuer)

\* A pass wrote two documents; two records attributed to issuers of two
\* groups are listed, each in the document of its issuer's group
C38_Witness ==
    /\ Built /\ ~last.err /\ ~crlDisable
    /\ Cardinality(last.wrote) = 2
    /\ \E s1, s2 \in DOMAIN revoked :
          /\ revoked[s1].CertificateIssuer \in SigningIssuers
          /\ revoked[s2].CertificateIssuer \in SigningIssuers
          /\ CRLOf(revoked[s1].CertificateIssuer)
                # CRLOf(revoked[s2].CertificateIssuer)
          /\ PlacesWritten(s1) # {}
          /\ PlacesWritten(s2) # {}


\* ---------------------------------------------------------------------------
\* revokeCert when its rebuild fails
\* ---------------------------------------------------------------------------

\* C39: revokeCert writes the RevocationRecord before it invokes rebuild; if
\* the rebuild returns an error, revokeCert reports the error and the record
\* stays in storage; a retry for the same serial takes the already-revoked
\* path, rebuilds again and keeps the original revocation time.
C39_RecordSurvivesFailedRebuild ==
    [][last'.op = "revokeCert" =>
         /\ \A serial \in DOMAIN revoked :
               /\ serial \in DOMAIN revoked'
               /\ revoked'[serial].RevocationTime = revoked[serial].RevocationTime
               /\ revoked'[serial].RevocationTimeUTC
                     = revoked[serial].RevocationTimeUTC
         /\ last'.built =>
               /\ last'.serial \in DOMAIN revoked'
               /\ last'.serial \notin DOMAIN revoked
                     => revoked'[last'.serial].RevocationTimeUTC = now'
               /\ last'.time = revoked'[last'.serial].RevocationTime
               /\ last'.err <=> ~last'.resp
         /\ (last'.serial \in DOMAIN revoked /\ (last'.resp \/ last'.built))
               => /\ last'.built
                  /\ last'.time = revoked[last'.serial].RevocationTime
                  /\ last'.timeUTC = revoked[last'.serial].RevocationTimeUTC]_vars

\* A retry succeeded at a later tick than the record's, which a failed first
\* call had left: no CRL listed the serial before the retry
C39_Witness ==
    /\ last.op = "revokeCert"
    /\ last.built
    /\ last.resp
    /\ ~crlDisable
    /\ last.serial \in DOMAIN revoked
    /\ revoked[last.serial].RevocationTimeUTC < now
    /\ last.timeUTC = revoked[last.serial].RevocationTimeUTC
    /\ \A id \in DOMAIN last.prev :
          \A n \in 1 .. Len(last.prev[id].RevokedCertificates) :
              last.prev[id].RevokedCertificates[n].SerialNumber # last.serial
    /\ \E id \in last.wrote : last.serial \in Listed(id)


\* ---------------------------------------------------------------------------
\* The whole life of a mount: imports, deletions, revocations and rebuilds
\* from empty storage
\* ---------------------------------------------------------------------------

LifeImportKey ==
    \E keyValue \in { <<"K1">>, <<"K2", "NL">> } :
        /\ importKey(keyValue, "n1")
        /\ UNCHANGED <<issuerConfig, crlVars, builderVars>>

\* The certificates imported: a root, and two CA certificates another root
\* issued for one key under two subjects
LifeImportIssuer ==
    \E certValue \in { <<"CA2">>, <<"CA1x">>, <<"CA3x">> } :
        /\ importIssuer(certValue, "n1")
        /\ UNCHANGED <<keyConfig, crlVars, builderVars>>

NextLife ==
    \/ LifeImportKey
    \/ LifeImportIssuer
    \/ DeleteKey
    \/ DeleteIssuer
    \/ RevokeCertNow
    \/ Rebuild

SpecLife == Init /\ [][NextLife]_vars

\* The (key identifier, subject) group of a stored issuer with a key
KeySubjectOf(i) == <<issuers[i].KeyID, IssuerCert(i).RawSubject>>

\* C40: under any sequence of importKey, importIssuer, deleteKey,
\* deleteIssuer, revokeCert and rebuild calls from empty storage, two stored
\* issuers that belong to different (key identifier, subject) groups are
\* never mapped to the same CRL identifier.
C40_GroupsHaveOwnCRL ==
    \A i, j \in SigningIssuers :
        (/\ KeySubjectOf(i) # KeySubjectOf(j)
         /\ CRLOf(i) # NoId
         /\ CRLOf(j) # NoId)
            => CRLOf(i) # CRLOf(j)

=============================================================================
